---- MODULE Spec2Model ----
(***************************************************************************)
(* A model of the embedding-indexing and semantic-retrieval pipeline of    *)
(* openai-memory-search:                                                   *)
(*   embed_and_index.py   the index build (sanitize, embed, save)          *)
(*   semantic_search.py   the CLI query loop                               *)
(*   streamlit_app.py     the browser app (search, role filter, threads,   *)
(*                        insights on demand)                              *)
(*   enhanced_app.py      the second browser app (loading, Search mode)    *)
(*   batch_process_insights.py   the batch insight run                     *)
(* Python values are tagged records, strings are tuples of one-character   *)
(* strings, so that strip(), len(), truthiness and float() are computed    *)
(* and not assumed.                                                        *)
(***************************************************************************)
EXTENDS Integers, Sequences, FiniteSets, TLC

VARIABLES
    records,        \* embed_and_index.py: the records read from DATA_PATH
    bpc,            \* embed_and_index.py: position of the build script
    texts,          \* embed_and_index.py: texts
    valid_records,  \* embed_and_index.py: valid_records
    embeddings,     \* embed_and_index.py: embeddings
    batch_i,        \* embed_and_index.py: i of the batch loop
    batch_log,      \* embed_and_index.py: per batch, whether it was embedded
    build_no,       \* number of the build that is running or ran last
    index_file,     \* INDEX_PATH on disk
    metadata_file,  \* METADATA_PATH on disk
    consumer,       \* which consumer process runs and where it is
    metadata,       \* the consumer's loaded Metadata Store
    index,          \* the consumer's loaded Vector Index
    thread_cache,   \* streamlit_app.py: st.cache_data of get_full_conversation_messages
    last_run,       \* what the consumer's last query run did and displayed
    insights_file,  \* OUTPUT_INSIGHTS_PATH on disk
    ipc,            \* batch_process_insights.py: position of main()
    run_no,         \* number of the batch insight run that runs or ran last,
                    \* counted in a cycle of MaxRuns
    all_metadata_list,  \* batch_process_insights.py: all_metadata_list
    existing_insights,  \* batch_process_insights.py: existing_insights
    ids_to_process,     \* batch_process_insights.py: ids_to_process
    loop_i,         \* batch_process_insights.py: i of the processing loop
    new_insights_generated_this_session,
    gen_log,        \* the generation requests of this run, in order
    events,         \* the generation requests and sleeps of this run, in order
    this_run,       \* this run: the file at its start, how it ended, its report
    failed_earlier, \* the ids whose generation failed in an earlier, finished run
    precalculated_insights,  \* streamlit_app.py: precalculated_insights
    insight_cache,  \* streamlit_app.py: st.cache_data of generate_summary_and_keywords_on_demand
    ondemand_log,   \* the on-demand insight requests of the session, in order
    notices,        \* what the loading of the app has put on the page
    returned        \* batch_process_insights.py: what the last direct call of a helper returned

vars == <<records, bpc, texts, valid_records, embeddings, batch_i, batch_log,
          build_no, index_file, metadata_file, consumer, metadata, index,
          thread_cache, last_run, insights_file, ipc, run_no,
          all_metadata_list, existing_insights, ids_to_process, loop_i,
          new_insights_generated_this_session, gen_log, events, this_run,
          failed_earlier, precalculated_insights, insight_cache,
          ondemand_log, notices, returned>>

buildVars == <<records, bpc, texts, valid_records, embeddings, batch_i,
               batch_log, build_no>>
fileVars == <<index_file, metadata_file>>
consumerVars == <<consumer, metadata, index, thread_cache, last_run>>
insightVars == <<insights_file, ipc, run_no, all_metadata_list,
                 existing_insights, ids_to_process, loop_i,
                 new_insights_generated_this_session, gen_log, events,
                 this_run, failed_earlier, returned>>
onDemandVars == <<precalculated_insights, insight_cache, ondemand_log>>
sessionVars == <<onDemandVars, notices>>
pipelineVars == <<buildVars, fileVars, consumerVars, sessionVars>>

----------------------------------------------------------------------------
(* Bounds of the model.                                                    *)

\* Longest records source, in records.
MaxRecords == 3
\* BATCH_SIZE of embed_and_index.py (line 47) is 100; the model runs the same
\* loop with a batch of this size so that several batches fit in MaxRecords.
BatchSize == 2
\* Number of index builds in one behaviour.
MaxBuilds == 2

\* k of index.search in semantic_search.py (line 42) is 5, in streamlit_app.py
\* (line 168) 20, and streamlit_app.py displays the first 10 (line 192); the
\* model runs the same loops with these sizes, which keep k above and below
\* the number of vectors and the results above and below the display limit.
CliK == 2
AppK == 4
DisplayLimit == 2
\* Most vectors of a loaded index in the query runs.
MaxVectors == 4

\* Longest Metadata Store of the batch insight runs, in records.
MaxInsightRecords == 3
\* Number of batch insight runs that run_no tells apart.
MaxRuns == 3
\* Largest value of the max_results slider of enhanced_app.py (line 313: 1
\* to 20).
MaxResults == 2
\* Number of presses of an insight button in one behaviour.
MaxClicks == 3
\* TEST_SUBSET_SIZE of batch_process_insights.py (line 31) is 5, and line 229
\* saves at every 5th new insight; the model runs the same selection and the
\* same loop with these sizes, which keep the number of conversations above
\* and below them.
TestSubsetSize == 2
SaveEvery == 2

\* embed_and_index.py line 16.
MAX_TOKENS == 8192

----------------------------------------------------------------------------
(* Python values.                                                          *)

Str(cs) == [type |-> "str", chars |-> cs, n |-> 0]
Num(k) == [type |-> "num", chars |-> <<>>, n |-> k]
PyNone == [type |-> "none", chars |-> <<>>, n |-> 0]
Obj == [type |-> "obj", chars |-> <<>>, n |-> 0]
\* A key that the dict does not hold.
Missing == [type |-> "missing", chars |-> <<>>, n |-> 0]

\* dict.get(key, default)
Get(v, default) == IF v = Missing THEN default ELSE v

\* Two elements of a string that stand for a long run of non-blank text of
\* MAX_TOKENS - 1 and of MAX_TOKENS tokens; every other element is one
\* character.
RunBelow == "<run of MAX_TOKENS-1 tokens>"
RunAt == "<run of MAX_TOKENS tokens>"

\* An element that stands for the text of a special token of the tokenizer.
EndOfText == "<|endoftext|>"

\* The characters that str.isspace() holds for, which str.strip() removes:
\* blank, \t, \n, \r, \f, then U+000B, U+001C to U+001F, U+0085, U+00A0
\* and U+1680, written as the characters themselves, and the whitespace
\* from U+2000 on, each an element that stands for the character.
WHITESPACE ==
    {" ", "\t", "\n", "\r", "\f",
     "", "", "", "", "", "", " ", " ",
     "U+2000", "U+2001", "U+2002", "U+2003", "U+2004", "U+2005",
     "U+2006", "U+2007", "U+2008", "U+2009", "U+200A", "U+2028",
     "U+2029", "U+202F", "U+205F", "U+3000"}

IsSpace(c) == c \in WHITESPACE

\* str.strip(): leading and trailing whitespace removed.
RECURSIVE LStrip(_)
LStrip(cs) ==
    IF cs = <<>> THEN <<>>
    ELSE IF IsSpace(Head(cs)) THEN LStrip(Tail(cs)) ELSE cs

RECURSIVE RStrip(_)
RStrip(cs) ==
    IF cs = <<>> THEN <<>>
    ELSE IF IsSpace(cs[Len(cs)]) THEN RStrip(SubSeq(cs, 1, Len(cs) - 1)) ELSE cs

Strip(cs) == RStrip(LStrip(cs))

\* float() takes the whitespace off both ends of a text, all of it but U+001C
\* to U+001F, which stay and make the text no number.
FLOAT_WHITESPACE == WHITESPACE \ {"", "", "", ""}

FloatStrip(cs) ==
    LET kept == {j \in 1..Len(cs) : cs[j] \notin FLOAT_WHITESPACE}
    IN IF kept = {} THEN <<>>
       ELSE SubSeq(cs, CHOOSE j \in kept : \A k \in kept : j <= k,
                   CHOOSE j \in kept : \A k \in kept : j >= k)

LOWERCASE ==
    <<"a", "b", "c", "d", "e", "f", "g", "h", "i", "j", "k", "l", "m",
      "n", "o", "p", "q", "r", "s", "t", "u", "v", "w", "x", "y", "z">>
UPPERCASE ==
    <<"A", "B", "C", "D", "E", "F", "G", "H", "I", "J", "K", "L", "M",
      "N", "O", "P", "Q", "R", "S", "T", "U", "V", "W", "X", "Y", "Z">>

\* The characters outside ASCII whose lower() or upper() holds an ASCII
\* letter, with the characters it gives. A character that the text of this
\* module cannot hold is written by its code point. Every other character
\* outside ASCII stands for its small and for its capital letter, neither of
\* which is an ASCII character.
LOWER_TO_ASCII ==
    <<[c |-> "U+0130", to |-> <<"i", "U+0307">>],
      [c |-> "U+212A", to |-> <<"k">>]>>

UPPER_TO_ASCII ==
    <<[c |-> "ß", to |-> <<"S", "S">>],
      [c |-> "U+0131", to |-> <<"I">>],
      [c |-> "U+0149", to |-> <<"ʼ", "N">>],
      [c |-> "U+017F", to |-> <<"S">>],
      [c |-> "ǰ", to |-> <<"J", "U+030C">>],
      [c |-> "ẖ", to |-> <<"H", "U+0331">>],
      [c |-> "ẗ", to |-> <<"T", "U+0308">>],
      [c |-> "ẘ", to |-> <<"W", "U+030A">>],
      [c |-> "ẙ", to |-> <<"Y", "U+030A">>],
      [c |-> "ẚ", to |-> <<"A", "ʾ">>],
      [c |-> "U+FB00", to |-> <<"F", "F">>],
      [c |-> "U+FB01", to |-> <<"F", "I">>],
      [c |-> "U+FB02", to |-> <<"F", "L">>],
      [c |-> "U+FB03", to |-> <<"F", "F", "I">>],
      [c |-> "U+FB04", to |-> <<"F", "F", "L">>],
      [c |-> "U+FB05", to |-> <<"S", "T">>],
      [c |-> "U+FB06", to |-> <<"S", "T">>]>>

\* The characters that a conversion gives for c: those of the table, the
\* letter of the other case, or c itself.
CaseOf(c, table, from, to) ==
    IF \E j \in 1..Len(table) : table[j].c = c
    THEN table[CHOOSE j \in 1..Len(table) : table[j].c = c].to
    ELSE IF \E j \in 1..26 : from[j] = c
    THEN <<to[CHOOSE j \in 1..26 : from[j] = c]>>
    ELSE <<c>>

\* The conversions of the characters of cs, one after the other.
RECURSIVE Joined(_)
Joined(parts) ==
    IF \A j \in 1..Len(parts) : Len(parts[j]) = 1
    THEN [j \in 1..Len(parts) |-> parts[j][1]]
    ELSE Head(parts) \o Joined(Tail(parts))

LowerChar(c) == CaseOf(c, LOWER_TO_ASCII, UPPERCASE, LOWERCASE)

\* str.lower()
Lower(cs) == Joined([j \in 1..Len(cs) |-> LowerChar(cs[j])])

\* Characters of one element: a run has at least one character per token.
ElemChars(c) ==
    IF c = RunBelow THEN MAX_TOKENS - 1
    ELSE IF c = RunAt THEN MAX_TOKENS
    ELSE IF c = EndOfText THEN 13 ELSE 1

\* len(s)
RECURSIVE StrLen(_)
StrLen(cs) ==
    IF cs = <<>> THEN 0 ELSE ElemChars(Head(cs)) + StrLen(Tail(cs))

\* Tokens of one element: the tokenizer gives a character one token.
ElemTokens(c) ==
    IF c = RunBelow THEN MAX_TOKENS - 1
    ELSE IF c = RunAt THEN MAX_TOKENS ELSE 1

\* len(enc.encode(s)), when encode() returns.
RECURSIVE TokenLen(_)
TokenLen(cs) ==
    IF cs = <<>> THEN 0 ELSE ElemTokens(Head(cs)) + TokenLen(Tail(cs))

\* enc.encode(s) raises ValueError on a text that holds a special token.
EncodeRaises(cs) == \E j \in 1..Len(cs) : cs[j] = EndOfText

\* bool(v)
Truthy(v) ==
    CASE v.type = "str" -> v.chars # <<>>
      [] v.type = "num" -> v.n # 0
      [] v.type = "obj" -> TRUE
      [] OTHER -> FALSE

----------------------------------------------------------------------------
(* embed_and_index.py: sanitize + filter.                                  *)

BRACES == <<"{", "}">>
BRACKETS == <<"[", "]">>

\* content.strip() of the record (lines 32, 35), for a string content.
Stripped(r) == Strip(Get(r.content, Str(<<>>)).chars)

\* Lines 32-37: the record reaches the tokenizer.
ReachesTokenizer(r) ==
    /\ Get(r.content, Str(<<>>)).type = "str"
    /\ ~(\/ Stripped(r) = <<>>
         \/ Stripped(r) \in {BRACES, BRACKETS}
         \/ StrLen(Stripped(r)) < 3)

\* Lines 32-41: the loop body appends the record.
Eligible(r) ==
    /\ ReachesTokenizer(r)
    /\ TokenLen(Stripped(r)) < MAX_TOKENS

\* The loop of lines 29-41 over recs, from the accumulated texts and
\* valid_records; raised when enc.encode() raised, which ends the script.
RECURSIVE SanitizeLoop(_, _, _)
SanitizeLoop(recs, ts, vs) ==
    IF recs = <<>>
    THEN [texts |-> ts, valid_records |-> vs, raised |-> FALSE]
    ELSE LET r == Head(recs) IN
         IF ReachesTokenizer(r) /\ EncodeRaises(Stripped(r))
         THEN [texts |-> ts, valid_records |-> vs, raised |-> TRUE]
         ELSE IF Eligible(r)
         THEN SanitizeLoop(Tail(recs), Append(ts, Stripped(r)), Append(vs, r))
         ELSE SanitizeLoop(Tail(recs), ts, vs)

----------------------------------------------------------------------------
(* embed_and_index.py: the build script.                                   *)

\* client.embeddings.create(...).data[j].embedding for one text: the service
\* is external, and its vector is kept as "the embedding of this text".
Embed(t) == [of |-> t]

RECURSIVE EmbedAll(_)
EmbedAll(ts) ==
    IF ts = <<>> THEN <<>> ELSE <<Embed(Head(ts))>> \o EmbedAll(Tail(ts))

Min(a, b) == IF a <= b THEN a ELSE b

\* texts[i:i+BATCH_SIZE], with i counted from 0 as in the source.
Batch(ts, i) == SubSeq(ts, i + 1, Min(i + BatchSize, Len(ts)))

NoIndexFile == [gen |-> 0, vectors |-> <<>>]
NoMetadataFile == [gen |-> 0, state |-> "absent", records |-> <<>>]

\* Lines 24-43: the script starts, reads DATA_PATH and filters the records.
\* When the tokenizer raises (line 38) nothing catches the ValueError: the
\* script ends there and the records it had kept so far are gone with it.
Sanitize ==
    /\ bpc \in {"idle", "done", "failed", "crashed"}
    /\ build_no < MaxBuilds
    /\ build_no' = build_no + 1
    /\ LET s == SanitizeLoop(records, <<>>, <<>>) IN
       /\ texts' = IF s.raised THEN <<>> ELSE s.texts
       /\ valid_records' = IF s.raised THEN <<>> ELSE s.valid_records
    /\ embeddings' = <<>>
    /\ batch_i' = 0
    /\ batch_log' = <<>>
    /\ bpc' = IF SanitizeLoop(records, <<>>, <<>>).raised THEN "crashed"
              ELSE "embed"
    /\ UNCHANGED <<records, fileVars, consumerVars>>
    /\ UNCHANGED <<insightVars, sessionVars>>

\* Lines 48-54: one batch, embedded.
EmbedBatchOk ==
    /\ bpc = "embed"
    /\ batch_i < Len(texts)
    /\ embeddings' = embeddings \o EmbedAll(Batch(texts, batch_i))
    /\ batch_log' = Append(batch_log, TRUE)
    /\ batch_i' = batch_i + BatchSize
    /\ UNCHANGED <<records, bpc, texts, valid_records, build_no, fileVars,
                   consumerVars>>
    /\ UNCHANGED <<insightVars, sessionVars>>

\* A build whose failed batch ends the loop.
EmbedBatchFailAborts ==
    /\ bpc = "embed"
    /\ batch_i < Len(texts)
    /\ batch_log' = Append(batch_log, FALSE)
    /\ batch_i' = Len(texts)
    /\ UNCHANGED <<records, bpc, texts, valid_records, embeddings, build_no,
                   fileVars, consumerVars>>
    /\ UNCHANGED <<insightVars, sessionVars>>

\* Lines 48-51, 55-57: one batch, the call raising: the batch is skipped.
EmbedBatchFail ==
    /\ bpc = "embed"
    /\ batch_i < Len(texts)
    /\ batch_log' = Append(batch_log, FALSE)
    /\ batch_i' = batch_i + BatchSize
    /\ UNCHANGED <<records, bpc, texts, valid_records, embeddings, build_no,
                   fileVars, consumerVars>>
    /\ UNCHANGED <<insightVars, sessionVars>>

\* Lines 60-65: the loop is over and there are embeddings: the index is
\* written.
WriteIndex ==
    /\ bpc = "embed"
    /\ batch_i >= Len(texts)
    /\ embeddings # <<>>
    /\ index_file' = [gen |-> build_no, vectors |-> embeddings]
    /\ bpc' = "save_metadata"
    /\ UNCHANGED <<records, texts, valid_records, embeddings, batch_i,
                   batch_log, build_no, metadata_file, consumerVars>>
    /\ UNCHANGED <<insightVars, sessionVars>>

\* A build that writes an index of no vectors and no records.
NoEmbeddingsWritesFiles ==
    /\ bpc = "embed"
    /\ batch_i >= Len(texts)
    /\ embeddings = <<>>
    /\ index_file' = [gen |-> build_no, vectors |-> <<>>]
    /\ metadata_file' = [gen |-> build_no, state |-> "ok", records |-> <<>>]
    /\ bpc' = "failed"
    /\ UNCHANGED <<records, texts, valid_records, embeddings, batch_i,
                   batch_log, build_no, consumerVars>>
    /\ UNCHANGED <<insightVars, sessionVars>>

\* Lines 60, 70-71: no embeddings: nothing is written.
NoEmbeddings ==
    /\ bpc = "embed"
    /\ batch_i >= Len(texts)
    /\ embeddings = <<>>
    /\ bpc' = "failed"
    /\ UNCHANGED <<records, texts, valid_records, embeddings, batch_i,
                   batch_log, build_no, fileVars, consumerVars>>
    /\ UNCHANGED <<insightVars, sessionVars>>

\* Line 67: open(METADATA_PATH, "w") empties the file, or creates it empty;
\* the other processes see it so until json.dump has written it.
OpenMetadata ==
    /\ bpc = "save_metadata"
    /\ metadata_file' = [gen |-> build_no, state |-> "truncated",
                         records |-> <<>>]
    /\ bpc' = "dump_metadata"
    /\ UNCHANGED <<records, texts, valid_records, embeddings, batch_i,
                   batch_log, build_no, index_file, consumerVars>>
    /\ UNCHANGED <<insightVars, sessionVars>>

\* Lines 68-69: the metadata is written: json.dump of valid_records. The
\* records came from json.loads, so dumping and loading gives them back.
WriteMetadata ==
    /\ bpc = "dump_metadata"
    /\ metadata_file' = [gen |-> build_no, state |-> "ok",
                         records |-> valid_records]
    /\ bpc' = "done"
    /\ UNCHANGED <<records, texts, valid_records, embeddings, batch_i,
                   batch_log, build_no, index_file, consumerVars>>
    /\ UNCHANGED <<insightVars, sessionVars>>

\* Lines 67-68 raising: open() fails and the file is as it was, or the write
\* stops after open() emptied the file. The script ends on the exception.
WriteMetadataFail ==
    /\ bpc \in {"save_metadata", "dump_metadata"}
    /\ bpc' = "failed"
    /\ UNCHANGED <<records, texts, valid_records, embeddings, batch_i,
                   batch_log, build_no, fileVars, consumerVars>>
    /\ UNCHANGED <<insightVars, sessionVars>>

Build ==
    \/ Sanitize
    \/ EmbedBatchOk
    \/ EmbedBatchFail
    \/ WriteIndex
    \/ NoEmbeddings
    \/ OpenMetadata
    \/ WriteMetadata
    \/ WriteMetadataFail

----------------------------------------------------------------------------
(* The consumers' loaders.                                                 *)

NotLoaded == [gen |-> 0, list |-> <<>>]
NoIndex == [gen |-> 0, vectors |-> <<>>]
Off == [kind |-> "none", pc |-> "off"]

Digits == <<"0", "1", "2", "3", "4", "5", "6", "7", "8", "9">>

\* The decimal digits of Unicode (category Nd): 66 runs of ten, each from its
\* 0 to its 9. float() takes each of them as the ASCII digit of its value. A
\* digit that the text of this module cannot hold is written by its code
\* point.
DECIMAL_DIGITS ==
    <<<<"0", "1", "2", "3", "4", "5", "6", "7", "8", "9">>,
      <<"U+0660", "U+0661", "U+0662", "U+0663", "U+0664",
        "U+0665", "U+0666", "U+0667", "U+0668", "U+0669">>,
      <<"۰", "۱", "۲", "۳", "۴", "۵", "۶", "۷", "۸", "۹">>,
      <<"߀", "߁", "߂", "߃", "߄", "߅", "߆", "߇", "߈", "߉">>,
      <<"U+0966", "U+0967", "U+0968", "U+0969", "U+096A",
        "U+096B", "U+096C", "U+096D", "U+096E", "U+096F">>,
      <<"০", "১", "২", "৩", "৪", "৫", "৬", "৭", "৮", "৯">>,
      <<"U+0A66", "U+0A67", "U+0A68", "U+0A69", "U+0A6A",
        "U+0A6B", "U+0A6C", "U+0A6D", "U+0A6E", "U+0A6F">>,
      <<"૦", "૧", "૨", "૩", "૪", "૫", "૬", "૭", "૮", "૯">>,
      <<"U+0B66", "U+0B67", "U+0B68", "U+0B69", "U+0B6A",
        "U+0B6B", "U+0B6C", "U+0B6D", "U+0B6E", "U+0B6F">>,
      <<"௦", "௧", "௨", "௩", "௪", "௫", "௬", "௭", "௮", "௯">>,
      <<"U+0C66", "U+0C67", "U+0C68", "U+0C69", "U+0C6A",
        "U+0C6B", "U+0C6C", "U+0C6D", "U+0C6E", "U+0C6F">>,
      <<"೦", "೧", "೨", "೩", "೪", "೫", "೬", "೭", "೮", "೯">>,
      <<"U+0D66", "U+0D67", "U+0D68", "U+0D69", "U+0D6A",
        "U+0D6B", "U+0D6C", "U+0D6D", "U+0D6E", "U+0D6F">>,
      <<"෦", "෧", "෨", "෩", "෪", "෫", "෬", "෭", "෮", "෯">>,
      <<"U+0E50", "U+0E51", "U+0E52", "U+0E53", "U+0E54",
        "U+0E55", "U+0E56", "U+0E57", "U+0E58", "U+0E59">>,
      <<"໐", "໑", "໒", "໓", "໔", "໕", "໖", "໗", "໘", "໙">>,
      <<"U+0F20", "U+0F21", "U+0F22", "U+0F23", "U+0F24",
        "U+0F25", "U+0F26", "U+0F27", "U+0F28", "U+0F29">>,
      <<"U+1040", "U+1041", "U+1042", "U+1043", "U+1044",
        "U+1045", "U+1046", "U+1047", "U+1048", "U+1049">>,
      <<"႐", "႑", "႒", "႓", "႔", "႕", "႖", "႗", "႘", "႙">>,
      <<"០", "១", "២", "៣", "៤", "៥", "៦", "៧", "៨", "៩">>,
      <<"U+1810", "U+1811", "U+1812", "U+1813", "U+1814",
        "U+1815", "U+1816", "U+1817", "U+1818", "U+1819">>,
      <<"U+1946", "U+1947", "U+1948", "U+1949", "U+194A",
        "U+194B", "U+194C", "U+194D", "U+194E", "U+194F">>,
      <<"᧐", "᧑", "᧒", "᧓", "᧔", "᧕", "᧖", "᧗", "᧘", "᧙">>,
      <<"᪀", "᪁", "᪂", "᪃", "᪄", "᪅", "᪆", "᪇", "᪈", "᪉">>,
      <<"᪐", "᪑", "᪒", "᪓", "᪔", "᪕", "᪖", "᪗", "᪘", "᪙">>,
      <<"U+1B50", "U+1B51", "U+1B52", "U+1B53", "U+1B54",
        "U+1B55", "U+1B56", "U+1B57", "U+1B58", "U+1B59">>,
      <<"᮰", "᮱", "᮲", "᮳", "᮴", "᮵", "᮶", "᮷", "᮸", "᮹">>,
      <<"U+1C40", "U+1C41", "U+1C42", "U+1C43", "U+1C44",
        "U+1C45", "U+1C46", "U+1C47", "U+1C48", "U+1C49">>,
      <<"U+1C50", "U+1C51", "U+1C52", "U+1C53", "U+1C54",
        "U+1C55", "U+1C56", "U+1C57", "U+1C58", "U+1C59">>,
      <<"U+A620", "U+A621", "U+A622", "U+A623", "U+A624",
        "U+A625", "U+A626", "U+A627", "U+A628", "U+A629">>,
      <<"꣐", "꣑", "꣒", "꣓", "꣔", "꣕", "꣖", "꣗", "꣘", "꣙">>,
      <<"U+A900", "U+A901", "U+A902", "U+A903", "U+A904",
        "U+A905", "U+A906", "U+A907", "U+A908", "U+A909">>,
      <<"꧐", "꧑", "꧒", "꧓", "꧔", "꧕", "꧖", "꧗", "꧘", "꧙">>,
      <<"꧰", "꧱", "꧲", "꧳", "꧴", "꧵", "꧶", "꧷", "꧸", "꧹">>,
      <<"U+AA50", "U+AA51", "U+AA52", "U+AA53", "U+AA54",
        "U+AA55", "U+AA56", "U+AA57", "U+AA58", "U+AA59">>,
      <<"꯰", "꯱", "꯲", "꯳", "꯴", "꯵", "꯶", "꯷", "꯸", "꯹">>,
      <<"U+FF10", "U+FF11", "U+FF12", "U+FF13", "U+FF14",
        "U+FF15", "U+FF16", "U+FF17", "U+FF18", "U+FF19">>,
      <<"U+104A0", "U+104A1", "U+104A2", "U+104A3", "U+104A4",
        "U+104A5", "U+104A6", "U+104A7", "U+104A8", "U+104A9">>,
      <<"U+10D30", "U+10D31", "U+10D32", "U+10D33", "U+10D34",
        "U+10D35", "U+10D36", "U+10D37", "U+10D38", "U+10D39">>,
      <<"U+11066", "U+11067", "U+11068", "U+11069", "U+1106A",
        "U+1106B", "U+1106C", "U+1106D", "U+1106E", "U+1106F">>,
      <<"U+110F0", "U+110F1", "U+110F2", "U+110F3", "U+110F4",
        "U+110F5", "U+110F6", "U+110F7", "U+110F8", "U+110F9">>,
      <<"U+11136", "U+11137", "U+11138", "U+11139", "U+1113A",
        "U+1113B", "U+1113C", "U+1113D", "U+1113E", "U+1113F">>,
      <<"U+111D0", "U+111D1", "U+111D2", "U+111D3", "U+111D4",
        "U+111D5", "U+111D6", "U+111D7", "U+111D8", "U+111D9">>,
      <<"U+112F0", "U+112F1", "U+112F2", "U+112F3", "U+112F4",
        "U+112F5", "U+112F6", "U+112F7", "U+112F8", "U+112F9">>,
      <<"U+11450", "U+11451", "U+11452", "U+11453", "U+11454",
        "U+11455", "U+11456", "U+11457", "U+11458", "U+11459">>,
      <<"U+114D0", "U+114D1", "U+114D2", "U+114D3", "U+114D4",
        "U+114D5", "U+114D6", "U+114D7", "U+114D8", "U+114D9">>,
      <<"U+11650", "U+11651", "U+11652", "U+11653", "U+11654",
        "U+11655", "U+11656", "U+11657", "U+11658", "U+11659">>,
      <<"U+116C0", "U+116C1", "U+116C2", "U+116C3", "U+116C4",
        "U+116C5", "U+116C6", "U+116C7", "U+116C8", "U+116C9">>,
      <<"U+11730", "U+11731", "U+11732", "U+11733", "U+11734",
        "U+11735", "U+11736", "U+11737", "U+11738", "U+11739">>,
      <<"U+118E0", "U+118E1", "U+118E2", "U+118E3", "U+118E4",
        "U+118E5", "U+118E6", "U+118E7", "U+118E8", "U+118E9">>,
      <<"U+11950", "U+11951", "U+11952", "U+11953", "U+11954",
        "U+11955", "U+11956", "U+11957", "U+11958", "U+11959">>,
      <<"U+11C50", "U+11C51", "U+11C52", "U+11C53", "U+11C54",
        "U+11C55", "U+11C56", "U+11C57", "U+11C58", "U+11C59">>,
      <<"U+11D50", "U+11D51", "U+11D52", "U+11D53", "U+11D54",
        "U+11D55", "U+11D56", "U+11D57", "U+11D58", "U+11D59">>,
      <<"U+11DA0", "U+11DA1", "U+11DA2", "U+11DA3", "U+11DA4",
        "U+11DA5", "U+11DA6", "U+11DA7", "U+11DA8", "U+11DA9">>,
      <<"U+16A60", "U+16A61", "U+16A62", "U+16A63", "U+16A64",
        "U+16A65", "U+16A66", "U+16A67", "U+16A68", "U+16A69">>,
      <<"U+16AC0", "U+16AC1", "U+16AC2", "U+16AC3", "U+16AC4",
        "U+16AC5", "U+16AC6", "U+16AC7", "U+16AC8", "U+16AC9">>,
      <<"U+16B50", "U+16B51", "U+16B52", "U+16B53", "U+16B54",
        "U+16B55", "U+16B56", "U+16B57", "U+16B58", "U+16B59">>,
      <<"U+1D7CE", "U+1D7CF", "U+1D7D0", "U+1D7D1", "U+1D7D2",
        "U+1D7D3", "U+1D7D4", "U+1D7D5", "U+1D7D6", "U+1D7D7">>,
      <<"U+1D7D8", "U+1D7D9", "U+1D7DA", "U+1D7DB", "U+1D7DC",
        "U+1D7DD", "U+1D7DE", "U+1D7DF", "U+1D7E0", "U+1D7E1">>,
      <<"U+1D7E2", "U+1D7E3", "U+1D7E4", "U+1D7E5", "U+1D7E6",
        "U+1D7E7", "U+1D7E8", "U+1D7E9", "U+1D7EA", "U+1D7EB">>,
      <<"U+1D7EC", "U+1D7ED", "U+1D7EE", "U+1D7EF", "U+1D7F0",
        "U+1D7F1", "U+1D7F2", "U+1D7F3", "U+1D7F4", "U+1D7F5">>,
      <<"U+1D7F6", "U+1D7F7", "U+1D7F8", "U+1D7F9", "U+1D7FA",
        "U+1D7FB", "U+1D7FC", "U+1D7FD", "U+1D7FE", "U+1D7FF">>,
      <<"U+1E140", "U+1E141", "U+1E142", "U+1E143", "U+1E144",
        "U+1E145", "U+1E146", "U+1E147", "U+1E148", "U+1E149">>,
      <<"U+1E2F0", "U+1E2F1", "U+1E2F2", "U+1E2F3", "U+1E2F4",
        "U+1E2F5", "U+1E2F6", "U+1E2F7", "U+1E2F8", "U+1E2F9">>,
      <<"U+1E950", "U+1E951", "U+1E952", "U+1E953", "U+1E954",
        "U+1E955", "U+1E956", "U+1E957", "U+1E958", "U+1E959">>,
      <<"U+1FBF0", "U+1FBF1", "U+1FBF2", "U+1FBF3", "U+1FBF4",
        "U+1FBF5", "U+1FBF6", "U+1FBF7", "U+1FBF8", "U+1FBF9">>>>

\* The value of every decimal digit.
DIGIT_VALUE ==
    [c \in UNION {{DECIMAL_DIGITS[r][d] : d \in 1..10} :
                    r \in 1..Len(DECIMAL_DIGITS)} |->
        (CHOOSE d \in 1..10 :
             \E r \in 1..Len(DECIMAL_DIGITS) : DECIMAL_DIGITS[r][d] = c) - 1]

IsDigit(c) == c \in DOMAIN DIGIT_VALUE
DigitValue(c) == DIGIT_VALUE[c]

RECURSIVE DecimalValue(_, _)
DecimalValue(cs, acc) ==
    IF cs = <<>> THEN acc
    ELSE DecimalValue(Tail(cs), 10 * acc + DigitValue(Head(cs)))

\* str(n) of an integer n: the decimal digits, after "-" when n < 0.
RECURSIVE DecimalChars(_)
DecimalChars(n) ==
    IF n < 0 THEN <<"-">> \o DecimalChars(-n)
    ELSE IF n < 10 THEN <<Digits[n + 1]>>
    ELSE DecimalChars(n \div 10) \o <<Digits[(n % 10) + 1]>>

----------------------------------------------------------------------------
(* Numbers of any size: float() and datetime.fromtimestamp().              *)

\* A magnitude is the sequence of the decimal digits of a natural number, the
\* first digit not 0; <<>> is 0. An integer is a sign and a magnitude.
StripZeros(ds) ==
    IF \A j \in 1..Len(ds) : ds[j] = 0 THEN <<>>
    ELSE SubSeq(ds,
                CHOOSE j \in 1..Len(ds) :
                    ds[j] # 0 /\ \A k \in 1..(j - 1) : ds[k] = 0,
                Len(ds))

Zeros(n) == [j \in 1..(IF n > 0 THEN n ELSE 0) |-> 0]

MagLess(a, b) ==
    \/ Len(a) < Len(b)
    \/ /\ Len(a) = Len(b)
       /\ \E i \in 1..Len(a) :
           /\ a[i] < b[i]
           /\ \A j \in 1..(i - 1) : a[j] = b[j]

\* a + b, digit by digit: a place takes a carry when a place after it sums to
\* 10 or more and the places between sum to 9.
MagAdd(a, b) ==
    LET n == IF Len(a) > Len(b) THEN Len(a) ELSE Len(b)
        x == Zeros(n - Len(a)) \o a
        y == Zeros(n - Len(b)) \o b
        Carry(i) == \E j \in (i + 1)..n :
                        /\ x[j] + y[j] >= 10
                        /\ \A k \in (i + 1)..(j - 1) : x[k] + y[k] = 9
    IN (IF Carry(0) THEN <<1>> ELSE <<>>)
       \o [i \in 1..n |-> (x[i] + y[i] + (IF Carry(i) THEN 1 ELSE 0)) % 10]

\* a - b for a >= b, leading zeros kept: a place lends when a place after
\* it is short and the places between are level.
MagSub(a, b) ==
    LET n == Len(a)
        y == Zeros(n - Len(b)) \o b
        Borrow(i) == \E j \in (i + 1)..n :
                         /\ a[j] < y[j]
                         /\ \A k \in (i + 1)..(j - 1) : a[k] = y[k]
    IN <<>> \o [i \in 1..n |->
                   (a[i] + 10 - y[i] - (IF Borrow(i) THEN 1 ELSE 0)) % 10]

BigInt(neg, mag) == [neg |-> neg /\ mag # <<>>, mag |-> mag]

\* The integer n of the model as an integer of any size.
BigOf(n) ==
    LET abs == IF n < 0 THEN -n ELSE n
        ds == DecimalChars(abs)
    IN BigInt(n < 0, StripZeros([j \in 1..Len(ds) |-> DigitValue(ds[j])]))

BigAdd(x, y) ==
    IF x.neg = y.neg THEN BigInt(x.neg, MagAdd(x.mag, y.mag))
    ELSE IF MagLess(x.mag, y.mag)
    THEN BigInt(y.neg, StripZeros(MagSub(y.mag, x.mag)))
    ELSE BigInt(x.neg, StripZeros(MagSub(x.mag, y.mag)))

BigLess(x, y) ==
    IF x.neg # y.neg THEN x.neg
    ELSE IF x.neg THEN MagLess(y.mag, x.mag) ELSE MagLess(x.mag, y.mag)

\* A float: nan, an infinity, or the decimal (-1)^neg * mag * 10^e with mag a
\* magnitude whose last digit is not 0: every double is such a decimal. 0.0
\* and -0.0, which are equal, are one float here.
Nan == [kind |-> "nan", neg |-> FALSE, mag |-> <<>>, e |-> 0]
Inf(neg) == [kind |-> "inf", neg |-> neg, mag |-> <<>>, e |-> 0]

Fin(neg, mag, e) ==
    LET m == StripZeros(mag)
        last == CHOOSE j \in 1..Len(m) :
                    m[j] # 0 /\ \A k \in (j + 1)..Len(m) : m[k] = 0
    IN IF m = <<>> THEN [kind |-> "fin", neg |-> FALSE, mag |-> <<>>, e |-> 0]
       ELSE [kind |-> "fin", neg |-> neg, mag |-> SubSeq(m, 1, last),
             e |-> e + Len(m) - last]

\* |a| < |b| for two decimals.
AbsLess(a, b) ==
    IF b.mag = <<>> THEN FALSE
    ELSE IF a.mag = <<>> THEN TRUE
    ELSE IF Len(a.mag) + a.e # Len(b.mag) + b.e
    THEN Len(a.mag) + a.e < Len(b.mag) + b.e
    ELSE LET n == IF Len(a.mag) > Len(b.mag) THEN Len(a.mag) ELSE Len(b.mag)
         IN MagLess(a.mag \o Zeros(n - Len(a.mag)),
                    b.mag \o Zeros(n - Len(b.mag)))

\* A decimal held digit by digit, the last fl digits after the point, and
\* its whole part; twice and half a sequence of digits.
Whole(x) == StripZeros(SubSeq(x.ds, 1, Len(x.ds) - x.fl))

NoFraction(x) == \A j \in (Len(x.ds) - x.fl + 1)..Len(x.ds) : x.ds[j] = 0

Twice(ds) ==
    (IF ds # <<>> /\ ds[1] >= 5 THEN <<1>> ELSE <<>>)
    \o [i \in 1..Len(ds) |->
           (2 * ds[i] + (IF i < Len(ds) /\ ds[i + 1] >= 5 THEN 1 ELSE 0)) % 10]

Halved(ds) ==
    <<>> \o [i \in 1..Len(ds) |->
                ((IF i > 1 THEN ds[i - 1] % 2 ELSE 0) * 10 + ds[i]) \div 2]

Dbl(x) == [ds |-> Twice(x.ds), fl |-> x.fl]

Half(x) ==
    IF x.ds = <<>> \/ x.ds[Len(x.ds)] % 2 = 0
    THEN [ds |-> Halved(x.ds), fl |-> x.fl]
    ELSE [ds |-> Halved(x.ds \o <<0>>), fl |-> x.fl + 1]

\* The whole number nearest to x, the half going to the even one.
HalfEven(x) ==
    LET whole == Whole(x)
        cut == SubSeq(x.ds, Len(x.ds) - x.fl + 1, Len(x.ds))
        odd == whole # <<>> /\ whole[Len(whole)] % 2 = 1
        up == /\ cut # <<>>
              /\ \/ cut[1] > 5
                 \/ /\ cut[1] = 5
                    /\ \/ \E j \in 2..Len(cut) : cut[j] # 0
                       \/ odd
    IN IF up THEN MagAdd(whole, <<1>>) ELSE whole

\* 2^52 and 2^53: a double holds 53 binary digits.
TWO52 == <<4, 5, 0, 3, 5, 9, 9, 6, 2, 7, 3, 7, 0, 4, 9, 6>>
TWO53 == <<9, 0, 0, 7, 1, 9, 9, 2, 5, 4, 7, 4, 0, 9, 9, 2>>

\* Sixteen doublings and sixteen halvings at once.
Dbl4(x) == Dbl(Dbl(Dbl(Dbl(x))))
Dbl16(x) == Dbl4(Dbl4(Dbl4(Dbl4(x))))
Half4(x) == Half(Half(Half(Half(x))))
Half16(x) == Half4(Half4(Half4(Half4(x))))

\* x doubled until it has no fraction, or its whole part has 53 binary
\* digits, or it was doubled 1074 times, 2^-1074 being the least double above
\* 0; and the number k of the doublings.
RECURSIVE ScaleUp(_, _)
ScaleUp(x, k) ==
    IF NoFraction(x) \/ ~MagLess(Whole(x), TWO52) \/ k >= 1074
    THEN [x |-> x, k |-> k]
    ELSE IF k + 16 <= 1074 /\ MagLess(Whole(Dbl16(x)), TWO52)
    THEN ScaleUp(Dbl16(x), k + 16)
    ELSE ScaleUp(Dbl(x), k + 1)

\* x halved until its whole part has no more than 53 binary digits.
RECURSIVE ScaleDown(_, _)
ScaleDown(x, k) ==
    IF MagLess(Whole(x), TWO53) THEN [x |-> x, k |-> k]
    ELSE IF ~MagLess(Whole(Half16(x)), TWO53)
    THEN ScaleDown(Half16(x), k + 16)
    ELSE ScaleDown(Half(x), k + 1)

RECURSIVE Doubled(_, _)
Doubled(x, k) ==
    IF x.ds = <<>> \/ k = 0 THEN x
    ELSE IF k >= 16 THEN Doubled(Dbl16(x), k - 16)
    ELSE Doubled(Dbl(x), k - 1)

RECURSIVE Halves(_, _)
Halves(x, k) ==
    IF x.ds = <<>> \/ k = 0 THEN x
    ELSE IF k >= 16 THEN Halves(Half16(x), k - 16)
    ELSE Halves(Half(x), k - 1)

\* The decimal f held digit by digit.
Decimal(f) ==
    IF f.e >= 0 THEN [ds |-> f.mag \o Zeros(f.e), fl |-> 0]
    ELSE [ds |-> Zeros((-f.e) - Len(f.mag)) \o f.mag, fl |-> -f.e]

FinOfDecimal(neg, x) == Fin(neg, x.ds, -x.fl)

\* The double of a decimal that was doubled up.k times to up.x: up.x rounded
\* to a whole number and halved back.
FromScaledUp(neg, up) ==
    FinOfDecimal(neg, Halves([ds |-> HalfEven(up.x), fl |-> 0], up.k))

\* The double of a decimal that was halved k times and rounded to m: m
\* doubled back, an infinity from 2^1024 - 2^970 on.
FromRounded(neg, k, m) ==
    IF k > 971 \/ (k = 971 /\ ~MagLess(m, TWO53)) THEN Inf(neg)
    ELSE FinOfDecimal(neg, Doubled([ds |-> m, fl |-> 0], k))

FromScaledDown(neg, down) == FromRounded(neg, down.k, HalfEven(down.x))

NearestDouble(neg, f, x) ==
    IF f.mag = <<>> THEN f
    ELSE IF Len(f.mag) + f.e > 310 THEN Inf(neg)
    ELSE IF Len(f.mag) + f.e < -325 THEN Fin(neg, <<>>, 0)
    ELSE IF MagLess(Whole(x), TWO53) THEN FromScaledUp(neg, ScaleUp(x, 0))
    ELSE FromScaledDown(neg, ScaleDown(x, 0))

DoubleOfFin(neg, f) == NearestDouble(neg, f, Decimal(f))

\* float() of the decimal mag * 10^e: the nearest double, the half going to
\* the even one. The decimal is halved or doubled until its whole part has 53
\* binary digits, rounded there, and doubled or halved back; below 2^-1022
\* it is rounded to a multiple of 2^-1074, and from 2^1024 - 2^970 on the
\* result is an infinity.
DoubleOf(neg, mag, e) == DoubleOfFin(neg, Fin(neg, mag, e))

\* a < b for two floats: FALSE when one is nan.
FloatLess(a, b) ==
    IF a.kind = "nan" \/ b.kind = "nan" THEN FALSE
    ELSE IF a.kind = "inf" THEN a.neg /\ ~(b.kind = "inf" /\ b.neg)
    ELSE IF b.kind = "inf" THEN ~b.neg
    ELSE IF a.neg # b.neg THEN a.neg
    ELSE IF a.neg THEN AbsLess(b, a) ELSE AbsLess(a, b)

\* The digits at the head of cs, a single underscore allowed between two
\* digits, and what follows them.
RECURSIVE TakeDigits(_, _)
TakeDigits(cs, acc) ==
    IF cs # <<>> /\ IsDigit(Head(cs))
    THEN TakeDigits(Tail(cs), Append(acc, DigitValue(Head(cs))))
    ELSE IF /\ Len(cs) >= 2 /\ Head(cs) = "_" /\ acc # <<>>
            /\ IsDigit(cs[2])
    THEN TakeDigits(Tail(cs), acc)
    ELSE [digits |-> acc, rest |-> cs]

NotAFloat == [ok |-> FALSE, t |-> Nan]

Unsigned(s) == IF s # <<>> /\ Head(s) \in {"+", "-"} THEN Tail(s) ELSE s

IsNegative(s) == s # <<>> /\ Head(s) = "-"

\* The digits after the point, when rest begins with one.
FractionPart(rest) ==
    IF rest # <<>> /\ Head(rest) = "." THEN TakeDigits(Tail(rest), <<>>)
    ELSE [digits |-> <<>>, rest |-> rest]

ExponentDigits(neg, part) ==
    [ok |-> part.digits # <<>> /\ part.rest = <<>>, neg |-> neg,
     digits |-> StripZeros(part.digits)]

\* What follows the digits: nothing, or the letter e, a sign and digits.
ExponentPart(rest) ==
    IF rest = <<>> THEN [ok |-> TRUE, neg |-> FALSE, digits |-> <<>>]
    ELSE IF Head(rest) \in {"e", "E"}
    THEN ExponentDigits(IsNegative(Tail(rest)),
                        TakeDigits(Unsigned(Tail(rest)), <<>>))
    ELSE [ok |-> FALSE, neg |-> FALSE, digits |-> <<>>]

\* The digits mant, the last fl of them after the point, times 10 to the
\* exponent ep; an exponent of more than four digits is beyond every double.
Scaled(neg, mant, fl, ep) ==
    IF ~ep.ok THEN NotAFloat
    ELSE IF Len(ep.digits) > 4
    THEN [ok |-> TRUE,
          t |-> IF StripZeros(mant) = <<>> \/ ep.neg
                THEN Fin(FALSE, <<>>, 0) ELSE Inf(neg)]
    ELSE [ok |-> TRUE,
          t |-> DoubleOf(neg, mant,
                         (IF ep.neg THEN -1 ELSE 1)
                             * DecimalValue([j \in 1..Len(ep.digits) |->
                                                Digits[ep.digits[j] + 1]], 0)
                         - fl)]

FloatOfParts(neg, ip, fp) ==
    IF ip.digits \o fp.digits = <<>> THEN NotAFloat
    ELSE Scaled(neg, ip.digits \o fp.digits, Len(fp.digits),
                ExponentPart(fp.rest))

FloatOfDigits(neg, ip) == FloatOfParts(neg, ip, FractionPart(ip.rest))

FloatOfBody(neg, body) ==
    IF Lower(body) \in {<<"i", "n", "f">>,
                        <<"i", "n", "f", "i", "n", "i", "t", "y">>}
    THEN [ok |-> TRUE, t |-> Inf(neg)]
    ELSE IF Lower(body) = <<"n", "a", "n">> THEN [ok |-> TRUE, t |-> Nan]
    ELSE FloatOfDigits(neg, TakeDigits(body, <<>>))

FloatOfStripped(s) == FloatOfBody(IsNegative(s), Unsigned(s))

\* float(s) of a text: whitespace around it stripped, a sign, then inf,
\* infinity or nan in any case of the letters, or decimal digits of any
\* script with a point and an exponent; ValueError on anything else.
FloatOfText(chars) == FloatOfStripped(FloatStrip(chars))

\* float(v): the number itself, the float of a text; TypeError on None and on
\* a list or a dict.
PyFloat(v) ==
    CASE v.type = "num" ->
           [ok |-> TRUE, t |-> DoubleOf(v.n < 0, BigOf(v.n).mag, 0)]
      [] v.type = "str" -> FloatOfText(v.chars)
      [] OTHER -> NotAFloat

\* The part after the point times 10^6, a double again, rounded to a whole
\* number, the half to the even one.
MicrosecondPart(x) ==
    HalfEven(Decimal(DoubleOf(FALSE,
                              SubSeq(x.ds, Len(x.ds) - x.fl + 1, Len(x.ds)),
                              6 - x.fl)))

MicrosecondsOfDecimal(neg, x) ==
    BigInt(neg, StripZeros(MagAdd(Whole(x) \o Zeros(6), MicrosecondPart(x))))

\* The whole microseconds of a float, as datetime.fromtimestamp takes them:
\* the rounded part after the point added to the whole seconds.
Microseconds(f) == MicrosecondsOfDecimal(f.neg, Decimal(f))

\* The time zone of the process, TZ: the seconds that local time is ahead of
\* UTC at first, and from each instant, in microseconds, at which the zone
\* changes its clocks on, the instants in ascending order.
\* UTC, and America/New_York as the zone database has it: local mean time to
\* 1883-11-18, then standard time, and daylight time between the instants of
\* NEW_YORK_CHANGES taken two by two, from 1918 to 2037; from the last of them
\* on the zone goes by its rule (rule TRUE), between its standard and its
\* daylight time.
NEW_YORK_CHANGES ==
    <<-1633280400, -1615140000, -1601830800, -1583690400, -1570381200,
      -1551636000, -1536512400, -1523210400, -1504458000, -1491760800,
      -1473008400, -1459706400, -1441558800, -1428256800, -1410109200,
      -1396807200, -1378659600, -1365357600, -1347210000, -1333908000,
      -1315155600, -1301853600, -1283706000, -1270404000, -1252256400,
      -1238954400, -1220806800, -1207504800, -1189357200, -1176055200,
      -1157302800, -1144605600, -1125853200, -1112551200, -1094403600,
      -1081101600, -1062954000, -1049652000, -1031504400, -1018202400,
      -1000054800, -986752800, -968000400, -955303200, -936550800,
      -923248800, -905101200, -891799200, -880218000, -765396000,
      -747248400, -733946400, -715798800, -702496800, -684349200,
      -671047200, -652899600, -639597600, -620845200, -608148000,
      -589395600, -576093600, -557946000, -544644000, -526496400,
      -513194400, -495046800, -481744800, -463597200, -447271200,
      -431542800, -415821600, -400093200, -384372000, -368643600,
      -352922400, -337194000, -321472800, -305744400, -289418400,
      -273690000, -257968800, -242240400, -226519200, -210790800,
      -195069600, -179341200, -163620000, -147891600, -131565600,
      -116442000, -100116000, -84387600, -68666400, -52938000,
      -37216800, -21488400, -5767200, 9961200, 25682400, 41410800,
      57736800, 73465200, 89186400, 104914800, 120636000, 126687600,
      152085600, 162370800, 183535200, 199263600, 215589600, 230713200,
      247039200, 262767600, 278488800, 294217200, 309938400, 325666800,
      341388000, 357116400, 372837600, 388566000, 404892000, 420015600,
      436341600, 452070000, 467791200, 483519600, 499240800, 514969200,
      530690400, 544604400, 562140000, 576054000, 594194400, 607503600,
      625644000, 638953200, 657093600, 671007600, 688543200, 702457200,
      719992800, 733906800, 752047200, 765356400, 783496800, 796806000,
      814946400, 828860400, 846396000, 860310000, 877845600, 891759600,
      909295200, 923209200, 941349600, 954658800, 972799200, 986108400,
      1004248800, 1018162800, 1035698400, 1049612400, 1067148000,
      1081062000, 1099202400, 1112511600, 1130652000, 1143961200,
      1162101600, 1173596400, 1194156000, 1205046000, 1225605600,
      1236495600, 1257055200, 1268550000, 1289109600, 1299999600,
      1320559200, 1331449200, 1352008800, 1362898800, 1383458400,
      1394348400, 1414908000, 1425798000, 1446357600, 1457852400,
      1478412000, 1489302000, 1509861600, 1520751600, 1541311200,
      1552201200, 1572760800, 1583650800, 1604210400, 1615705200,
      1636264800, 1647154800, 1667714400, 1678604400, 1699164000,
      1710054000, 1730613600, 1741503600, 1762063200, 1772953200,
      1793512800, 1805007600, 1825567200, 1836457200, 1857016800,
      1867906800, 1888466400, 1899356400, 1919916000, 1930806000,
      1951365600, 1962860400, 1983420000, 1994310000, 2014869600,
      2025759600, 2046319200, 2057209200, 2077768800, 2088658800,
      2109218400, 2120108400, 2140668000>>

Seconds(n) ==
    LET b == BigOf(n) IN BigInt(b.neg, StripZeros(b.mag \o Zeros(6)))

UTC ==
    [first |-> 0, changes |-> <<>>, rule |-> FALSE, standard |-> 0,
     daylight |-> 0]

NEW_YORK ==
    [first |-> -17762,
     changes |->
         <<[at |-> BigInt(TRUE, <<2, 7, 1, 7, 6, 5, 0, 8, 0, 0>> \o Zeros(6)),
            offset |-> -18000]>>
         \o [j \in 1..Len(NEW_YORK_CHANGES) |->
                [at |-> Seconds(NEW_YORK_CHANGES[j]),
                 offset |-> IF j % 2 = 1 THEN -14400 ELSE -18000]],
     rule |-> TRUE, standard |-> -18000, daylight |-> -14400]

TimeZones == {UTC, NEW_YORK}

\* The long division of the digits ds by n: the remainder after the first i
\* places, and the digits of the quotient.
RECURSIVE Remainder(_, _, _)
Remainder(ds, n, i) ==
    IF i = 0 THEN 0 ELSE (10 * Remainder(ds, n, i - 1) + ds[i]) % n

Quotient(ds, n) ==
    <<>> \o [j \in 1..Len(ds) |->
                (10 * Remainder(ds, n, j - 1) + ds[j]) \div n]

\* The month, the day of the month and the day of the week, 0 for Sunday, of
\* the day z days after 1970-01-01, a Thursday. The calendar comes round
\* after 400 years, which are 146097 days and a whole number of weeks.
CivilDate(z) ==
    LET doe == (z + 719468) % 146097
        yoe == (doe - doe \div 1460 + doe \div 36524 - doe \div 146096)
               \div 365
        doy == doe - (365 * yoe + yoe \div 4 - yoe \div 100)
        mp == (5 * doy + 2) \div 153
    IN [month |-> IF mp < 10 THEN mp + 3 ELSE mp - 9,
        day |-> doy - (153 * mp + 2) \div 5 + 1,
        weekday |-> (z + 4) % 7]

\* The rule M3.2.0,M11.1.0 on the clock of standard time: daylight time from
\* 02:00 of the second Sunday of March to 01:00, which is 02:00 daylight
\* time, of the first Sunday of November.
RuleDaylight(date, second) ==
    IF date.month = 3
    THEN IF date.weekday = 0 /\ date.day \in 8..14 THEN second >= 7200
         ELSE date.day - date.weekday >= 8
    ELSE IF date.month = 11
    THEN IF date.weekday = 0 /\ date.day <= 7 THEN second < 3600
         ELSE date.day - date.weekday < 1
    ELSE date.month \in 4..10

\* The rule at the seconds clock, a magnitude, of the clock of standard time.
DaylightAt(clock) ==
    RuleDaylight(CivilDate(Remainder(Quotient(clock, 86400), 146097,
                                     Len(clock))),
                 Remainder(clock, 86400, Len(clock)))

\* The seconds of the clock of standard time at the instant us, which is
\* after 1970.
StandardClock(us, tz) ==
    BigAdd(BigInt(FALSE, SubSeq(us.mag, 1, Len(us.mag) - 6)),
           BigOf(tz.standard)).mag

\* The offset at the instant us, past being the changes at or before it: that
\* of the last of them, and that of the rule from the last change of all on.
OffsetAfter(us, tz, past) ==
    IF past = 0 THEN tz.first
    ELSE IF tz.rule /\ past = Len(tz.changes)
    THEN IF DaylightAt(StandardClock(us, tz)) THEN tz.daylight
         ELSE tz.standard
    ELSE tz.changes[past].offset

\* The local wall clock of the instant us, in microseconds.
LocalTime(us, tz) ==
    BigAdd(us,
           Seconds(OffsetAfter(us, tz,
                               Cardinality({j \in 1..Len(tz.changes) :
                                   ~BigLess(us, tz.changes[j].at)}))))

\* The first second of the local year 10000, and the first days of year 1,
\* which fromtimestamp refuses: seconds since the epoch.
MAX_DATETIME == <<2, 5, 3, 4, 0, 2, 3, 0, 0, 8, 0, 0>>
MIN_DATETIME == <<6, 2, 1, 3, 5, 5, 1, 0, 4, 0, 0>>
\* The seconds from which localtime() fails, the year no longer an int, as
\* the decimals that round to such a double.
MAX_LOCALTIME == <<6, 7, 7, 6, 8, 0, 3, 6, 1, 9, 1, 6, 7, 6, 7, 9, 6>>
MIN_LOCALTIME == <<6, 7, 7, 6, 8, 0, 4, 0, 6, 0, 9, 7, 4, 0, 8, 0, 4>>

DatetimeNone == [ok |-> FALSE, raises |-> FALSE, t |-> BigInt(FALSE, <<>>)]
DatetimeRaises == [ok |-> FALSE, raises |-> TRUE, t |-> BigInt(FALSE, <<>>)]

\* The datetime of a local wall clock: None on a year outside 1..9999, an
\* exception beyond localtime().
DatetimeOfLocal(local) ==
    LET Sec(mag, neg) == BigInt(neg, mag \o Zeros(6))
    IN IF \/ ~BigLess(local, Sec(MAX_LOCALTIME, FALSE))
          \/ BigLess(local, Sec(MIN_LOCALTIME, TRUE))
       THEN DatetimeRaises
       ELSE IF \/ ~BigLess(local, Sec(MAX_DATETIME, FALSE))
               \/ BigLess(local, Sec(MIN_DATETIME, TRUE))
       THEN DatetimeNone
       ELSE [ok |-> TRUE, raises |-> FALSE, t |-> local]

DatetimeOfFloat(f, tz) ==
    IF ~f.ok \/ f.t.kind = "nan" THEN DatetimeNone
    ELSE IF f.t.kind = "inf" THEN DatetimeRaises
    ELSE IF Len(f.t.mag) + f.t.e > Len(MAX_LOCALTIME) + 1 THEN DatetimeRaises
    ELSE DatetimeOfLocal(LocalTime(Microseconds(f.t), tz))

\* datetime.fromtimestamp(float(v)) inside try ... except (ValueError,
\* TypeError): the naive local datetime, as its microseconds; None (ok FALSE)
\* when float() raises, on nan and on a year outside 1..9999; an infinity
\* gives OverflowError and a time beyond localtime() OSError, which the
\* except does not catch (raises TRUE).
FromTimestamp(v, tz) == DatetimeOfFloat(PyFloat(v), tz)

\* streamlit_app.py lines 42-46: record["datetime_obj"].
DatetimeObj(r, tz) ==
    IF Truthy(Get(r.timestamp, PyNone))
    THEN FromTimestamp(r.timestamp, tz)
    ELSE DatetimeNone

WithDatetime(r, tz) ==
    [message_id |-> r.message_id, conversation_id |-> r.conversation_id,
     role |-> r.role, content |-> r.content, timestamp |-> r.timestamp,
     datetime_obj |-> DatetimeObj(r, tz)]

WithDatetimes(rs, tz) == [j \in 1..Len(rs) |-> WithDatetime(rs[j], tz)]

\* The loop of lines 41-46 ends on the exception of a record.
DatetimeRaised(rs, tz) ==
    \E j \in 1..Len(rs) : DatetimeObj(rs[j], tz).raises

----------------------------------------------------------------------------
(* Python dicts, JSON objects, sorted().                                   *)

\* A dict is the sequence of its items in insertion order, the keys distinct
\* as Python compares them: the string "1" and the number 1 are two keys.
DictHas(d, k) == \E j \in 1..Len(d) : d[j].k = k

DictGet(d, k) == d[CHOOSE j \in 1..Len(d) : d[j].k = k].v

\* d[k] = v: the item of a key the dict holds is replaced in its place, a new
\* key goes to the end.
DictSet(d, k, v) ==
    IF DictHas(d, k)
    THEN [j \in 1..Len(d) |-> IF d[j].k = k THEN [k |-> k, v |-> v] ELSE d[j]]
    ELSE Append(d, [k |-> k, v |-> v])

\* The key of a JSON object that json.dump writes for a dict key: a string as
\* it is, a number as its decimal text with its sign, None as "null".
JsonKey(k) ==
    CASE k.type = "num" -> Str(DecimalChars(k.n))
      [] k.type = "none" -> Str(<<"n", "u", "l", "l">>)
      [] OTHER -> k

\* json.dump(d, f): one member per item, in the order of the dict; two keys
\* with one JSON text give two members.
JsonDump(d) == [j \in 1..Len(d) |-> [k |-> JsonKey(d[j].k), v |-> d[j].v]]

\* json.load(f) of an object: the members are set in order, so that a later
\* member of a repeated key replaces the value of the earlier one.
RECURSIVE JsonLoad(_, _)
JsonLoad(members, d) ==
    IF members = <<>> THEN d
    ELSE JsonLoad(Tail(members), DictSet(d, Head(members).k, Head(members).v))

\* The place of a character in the order of code points, for the characters
\* of the conversation ids of the model.
CodePointOrder ==
    <<"0", "1", "2", "3", "4", "5", "6", "7", "8", "9", "a", "b", "c", "d">>

CodePoint(c) == CHOOSE j \in 1..Len(CodePointOrder) : CodePointOrder[j] = c

\* a < b for two strings.
RECURSIVE StrLess(_, _)
StrLess(a, b) ==
    IF b = <<>> THEN FALSE
    ELSE IF a = <<>> THEN TRUE
    ELSE IF Head(a) = Head(b) THEN StrLess(Tail(a), Tail(b))
    ELSE CodePoint(Head(a)) < CodePoint(Head(b))

\* a < b for two values of one type, strings or numbers.
PyLess(a, b) == IF a.type = "num" THEN a.n < b.n ELSE StrLess(a.chars, b.chars)

\* sorted() raises TypeError when it compares a string with a number.
SortedRaises(vs) == \E i, j \in 1..Len(vs) : vs[i].type # vs[j].type

RECURSIVE InsertSorted(_, _)
InsertSorted(sorted, v) ==
    IF sorted = <<>> THEN <<v>>
    ELSE IF PyLess(v, Head(sorted)) THEN <<v>> \o sorted
    ELSE <<Head(sorted)>> \o InsertSorted(Tail(sorted), v)

\* sorted(vs), when it returns.
RECURSIVE Sorted(_, _)
Sorted(vs, acc) ==
    IF vs = <<>> THEN acc ELSE Sorted(Tail(vs), InsertSorted(acc, Head(vs)))

\* list(set(vs)), as the sequence of the distinct elements; sorted() orders
\* them afterwards.
RECURSIVE Distinct(_, _)
Distinct(vs, acc) ==
    IF vs = <<>> THEN acc
    ELSE IF \E j \in 1..Len(acc) : acc[j] = Head(vs)
         THEN Distinct(Tail(vs), acc)
         ELSE Distinct(Tail(vs), Append(acc, Head(vs)))

----------------------------------------------------------------------------
(* The consumers load the files.                                           *)

\* streamlit_app.py load_all_metadata_list_version on a file: [] when the file
\* is missing or is not JSON.
load_all_metadata_list_version(file, tz) ==
    IF file.state = "ok"
    THEN [gen |-> file.gen, list |-> WithDatetimes(file.records, tz)]
    ELSE NotLoaded

\* semantic_search.py lines 14-15: the CLI reads the metadata, or ends on the
\* exception of open() or json.load().
CliLoadMetadata ==
    /\ consumer = Off
    /\ IF metadata_file.state = "ok"
       THEN /\ metadata' = [gen |-> metadata_file.gen,
                            list |-> metadata_file.records]
            /\ consumer' = [kind |-> "cli", pc |-> "load_index"]
       ELSE /\ consumer' = [kind |-> "cli", pc |-> "crashed"]
            /\ UNCHANGED metadata
    /\ UNCHANGED <<buildVars, fileVars, index, thread_cache, last_run>>
    /\ UNCHANGED <<insightVars, sessionVars>>

\* semantic_search.py line 17.
CliLoadIndex ==
    /\ consumer = [kind |-> "cli", pc |-> "load_index"]
    /\ IF index_file.gen # 0
       THEN /\ index' = index_file
            /\ consumer' = [kind |-> "cli", pc |-> "ready"]
       ELSE /\ consumer' = [kind |-> "cli", pc |-> "crashed"]
            /\ UNCHANGED index
    /\ UNCHANGED <<buildVars, fileVars, metadata, thread_cache, last_run>>
    /\ UNCHANGED <<insightVars, sessionVars>>

\* streamlit_app.py line 141, with the st.error of lines 48-49, in a process
\* of any time zone. An exception of fromtimestamp that line 45 does not catch
\* leaves the function and ends the script run, the exception on the page.
AppLoadMetadata ==
    /\ consumer = Off
    /\ \E tz \in TimeZones :
        IF metadata_file.state = "ok"
           /\ DatetimeRaised(metadata_file.records, tz)
        THEN /\ metadata' = NotLoaded
             /\ notices' = {"uncaught_exception"}
             /\ consumer' = [kind |-> "app", pc |-> "crashed"]
        ELSE /\ metadata' = load_all_metadata_list_version(metadata_file, tz)
             /\ notices' = IF metadata_file.state = "ok" THEN {}
                           ELSE IF metadata_file.state = "absent"
                           THEN {"metadata_not_found"}
                           ELSE {"metadata_corrupt"}
             /\ consumer' = [kind |-> "app", pc |-> "load_index"]
    /\ UNCHANGED <<buildVars, fileVars, index, thread_cache, last_run>>
    /\ UNCHANGED <<insightVars, onDemandVars>>

\* streamlit_app.py lines 59-71: {} when the file is absent or is not JSON.
load_precalculated_insights(file) ==
    IF file.state = "ok" THEN JsonLoad(file.members, <<>>) ELSE <<>>

\* streamlit_app.py lines 142-147: load_faiss_index with the st.error of line
\* 56, load_precalculated_insights with the st.warning of line 66 on a file
\* that is not JSON, then the guard that warns and stops the script when the
\* metadata or the index is missing.
AppLoadIndex ==
    /\ consumer = [kind |-> "app", pc |-> "load_index"]
    /\ index' = index_file
    /\ precalculated_insights' = load_precalculated_insights(insights_file)
    /\ LET stops == metadata.list = <<>> \/ index_file.gen = 0 IN
       /\ consumer' = [kind |-> "app",
                       pc |-> IF stops THEN "stopped" ELSE "ready"]
       /\ notices' = notices
                     \cup (IF index_file.gen = 0 THEN {"index_not_read"}
                           ELSE {})
                     \cup (IF insights_file.state = "corrupt"
                           THEN {"insights_not_decoded"} ELSE {})
                     \cup (IF stops THEN {"core_data_not_loaded"} ELSE {})
    /\ UNCHANGED <<buildVars, fileVars, metadata, thread_cache, last_run>>
    /\ UNCHANGED <<insightVars, insight_cache, ondemand_log>>

----------------------------------------------------------------------------
(* streamlit_app.py: get_full_conversation_messages.                       *)

\* list.sort(key=datetime_obj): stable, an element goes after those whose key
\* is not greater.
RECURSIVE InsertByDatetime(_, _)
InsertByDatetime(sorted, m) ==
    IF sorted = <<>> THEN <<m>>
    ELSE IF ~BigLess(m.datetime_obj.t, Head(sorted).datetime_obj.t)
         THEN <<Head(sorted)>> \o InsertByDatetime(Tail(sorted), m)
         ELSE <<m>> \o sorted

RECURSIVE SortByDatetime(_, _)
SortByDatetime(ms, acc) ==
    IF ms = <<>> THEN acc
    ELSE SortByDatetime(Tail(ms), InsertByDatetime(acc, Head(ms)))

\* The body of the function (lines 84-91).
ConversationMessages(c, list) ==
    IF list = <<>> \/ ~Truthy(c) THEN <<>>
    ELSE LET Of(m) == /\ Get(m.conversation_id, PyNone) = c
                      /\ m.datetime_obj.ok
         IN SortByDatetime(SelectSeq(list, Of), <<>>)

\* The function as decorated (line 81): st.cache_data leaves a parameter whose
\* name starts with an underscore out of the cache key, and both do: a call
\* finds the entry of any earlier call. cache is <<>> or <<the entry>>.
get_full_conversation_messages(c, list, cache) ==
    IF cache # <<>>
    THEN [result |-> cache[1], cache |-> cache]
    ELSE [result |-> ConversationMessages(c, list),
          cache |-> <<ConversationMessages(c, list)>>]

----------------------------------------------------------------------------
(* Query runs: index.search, the CLI loop, the app's script run.           *)

NoRun ==
    [kind |-> "none", query |-> <<>>, filter_role |-> "Any",
     embed_called |-> FALSE, embed_ok |-> FALSE, searched |-> FALSE,
     I |-> <<>>, results_to_display |-> <<>>, displayed |-> <<>>,
     messages |-> {}, crashed |-> FALSE,
     conversation_id |-> PyNone, thread |-> <<>>, resubmitted |-> FALSE]

\* The orders in which an index of n vectors can rank its nearest min(k, n)
\* vectors for some query vector: handles count from 0.
Orders(n, k) ==
    {o \in [1..Min(k, n) -> 0..(n - 1)] :
        \A a, b \in 1..Min(k, n) : a # b => o[a] # o[b]}

\* I[0] of index.search(., k): the nearest handles by ascending distance,
\* then -1 up to k places when the index holds fewer than k vectors.
SearchResult(order, k) == order \o [j \in 1..(k - Len(order)) |-> -1]

EXIT == <<"e", "x", "i", "t">>
QUIT == <<"q", "u", "i", "t">>

\* What the user types.
Queries == {<<>>, <<" ", " ">>, <<" ", "h", "i", "\n">>, <<"E", "x", "i", "t">>}

\* semantic_search.py lines 44-51: the loop over zip(I[0], D[0]) from position
\* pos, shown being what was printed so far. A negative idx passes the test of
\* line 45 and metadata[idx] counts from the end of the list; it raises
\* IndexError below -len(metadata). The score of a hit is its rank.
RECURSIVE CliResultLoop(_, _, _, _)
CliResultLoop(I, pos, list, shown) ==
    IF pos > Len(I) THEN [shown |-> shown, crashed |-> FALSE]
    ELSE LET idx == I[pos] IN
         IF idx >= Len(list)
         THEN CliResultLoop(I, pos + 1, list, shown)
         ELSE IF idx >= 0
         THEN CliResultLoop(I, pos + 1, list,
                  Append(shown, [idx |-> idx, score |-> pos,
                                 record |-> list[idx + 1]]))
         ELSE IF Len(list) + idx >= 0
         THEN CliResultLoop(I, pos + 1, list,
                  Append(shown, [idx |-> idx, score |-> pos,
                                 record |-> list[Len(list) + idx + 1]]))
         ELSE [shown |-> shown, crashed |-> TRUE]

\* The CLI is at input() (line 22), nothing of the next iteration printed yet.
CliReady ==
    /\ consumer = [kind |-> "cli", pc |-> "ready"]
    /\ last_run = NoRun

\* query_loop, lines 22-25: an empty query after strip().
CliEmptyQuery ==
    /\ CliReady
    /\ \E q \in Queries :
        /\ Strip(q) = <<>>
        /\ last_run' = [NoRun EXCEPT !.kind = "cli", !.query = q,
                                     !.messages = {"empty_query"}]
    /\ UNCHANGED <<buildVars, fileVars, consumer, metadata, index,
                   thread_cache>>
    /\ UNCHANGED <<insightVars, sessionVars>>

\* query_loop, lines 26-28.
CliExit ==
    /\ CliReady
    /\ \E q \in Queries :
        /\ Strip(q) # <<>>
        /\ Lower(Strip(q)) \in {EXIT, QUIT}
        /\ last_run' = [NoRun EXCEPT !.kind = "cli", !.query = q,
                                     !.messages = {"goodbye"}]
    /\ consumer' = [kind |-> "cli", pc |-> "exited"]
    /\ UNCHANGED <<buildVars, fileVars, metadata, index, thread_cache>>
    /\ UNCHANGED <<insightVars, sessionVars>>

\* query_loop, lines 31-39 with the embedding call raising, as a bug would
\* have it: the search goes on.
CliEmbedFailSearches ==
    /\ CliReady
    /\ \E q \in Queries :
        /\ Strip(q) # <<>>
        /\ Lower(Strip(q)) \notin {EXIT, QUIT}
        /\ \E order \in Orders(Len(index.vectors), CliK) :
            LET I == SearchResult(order, CliK)
                out == CliResultLoop(I, 1, metadata.list, <<>>)
            IN last_run' = [NoRun EXCEPT !.kind = "cli", !.query = q,
                                         !.embed_called = TRUE,
                                         !.searched = TRUE, !.I = I,
                                         !.displayed = out.shown,
                                         !.messages = {"embed_error"}]
    /\ UNCHANGED <<buildVars, fileVars, consumer, metadata, index,
                   thread_cache>>
    /\ UNCHANGED <<insightVars, sessionVars>>

\* query_loop, lines 31-39: the embedding call raises, the error is printed
\* and the loop goes back to the prompt.
CliEmbedFail ==
    /\ CliReady
    /\ \E q \in Queries :
        /\ Strip(q) # <<>>
        /\ Lower(Strip(q)) \notin {EXIT, QUIT}
        /\ last_run' = [NoRun EXCEPT !.kind = "cli", !.query = q,
                                     !.embed_called = TRUE,
                                     !.messages = {"embed_error"}]
    /\ UNCHANGED <<buildVars, fileVars, consumer, metadata, index,
                   thread_cache>>
    /\ UNCHANGED <<insightVars, sessionVars>>

\* query_loop, lines 31-36, 41-51 for the query q and the I[0] that the
\* search gave: what the iteration prints, and whether it raises.
CliSearchRun(q, I) ==
    LET out == CliResultLoop(I, 1, metadata.list, <<>>)
    IN [NoRun EXCEPT !.kind = "cli", !.query = q,
                     !.embed_called = TRUE, !.embed_ok = TRUE,
                     !.searched = TRUE, !.I = I,
                     !.displayed = out.shown,
                     !.crashed = out.crashed]

\* query_loop, lines 31-36, 41-51: the query is embedded, the index searched
\* and the results printed.
CliSearch ==
    /\ CliReady
    /\ \E q \in Queries :
        /\ Strip(q) # <<>>
        /\ Lower(Strip(q)) \notin {EXIT, QUIT}
        /\ \E order \in Orders(Len(index.vectors), CliK) :
            LET run == CliSearchRun(q, SearchResult(order, CliK))
            IN /\ last_run' = run
               /\ consumer' = [kind |-> "cli",
                               pc |-> IF run.crashed THEN "crashed"
                                      ELSE "ready"]
    /\ UNCHANGED <<buildVars, fileVars, metadata, index, thread_cache>>
    /\ UNCHANGED <<insightVars, sessionVars>>

\* query_loop, lines 21-51: the iteration that follows a search, with its
\* output still on the screen: a query is typed and embedded, the index
\* searched and the results printed. resubmitted tells that the query and the
\* I[0] of the search are those of the iteration before.
CliSearchNext ==
    /\ consumer = [kind |-> "cli", pc |-> "ready"]
    /\ last_run.kind = "cli"
    /\ last_run.searched
    /\ \E q \in Queries :
        /\ Strip(q) # <<>>
        /\ Lower(Strip(q)) \notin {EXIT, QUIT}
        /\ \E order \in Orders(Len(index.vectors), CliK) :
            LET I == SearchResult(order, CliK)
                run == CliSearchRun(q, I)
            IN /\ last_run' =
                      [run EXCEPT !.resubmitted =
                                      /\ q = last_run.query
                                      /\ I = last_run.I]
               /\ consumer' = [kind |-> "cli",
                               pc |-> IF run.crashed THEN "crashed"
                                      ELSE "ready"]
    /\ UNCHANGED <<buildVars, fileVars, metadata, index, thread_cache>>
    /\ UNCHANGED <<insightVars, sessionVars>>

\* streamlit_app.py lines 181-184: whether the hit passes the role filter.
PassesRoleFilterUserOnly(filter_role, hit) ==
    ~(filter_role = "User (Zain)" /\ hit.role # "user")

PassesRoleFilter(filter_role, hit) ==
    /\ ~(filter_role = "User (Zain)" /\ hit.role # "user")
    /\ ~(filter_role = "Assistant (OpenAI)" /\ hit.role # "assistant")

RoleFilters == {"Any", "User (Zain)", "Assistant (OpenAI)"}

\* streamlit_app.py lines 173-186: the loop over I[0] from position pos, acc
\* being results_to_display so far. The score of a hit is its rank.
RECURSIVE AppResultLoop(_, _, _, _, _)
AppResultLoop(I, pos, list, filter_role, acc) ==
    IF pos > Len(I) THEN acc
    ELSE LET idx == I[pos] IN
         IF idx < 0 \/ idx >= Len(list)
         THEN AppResultLoop(I, pos + 1, list, filter_role, acc)
         ELSE IF ~PassesRoleFilter(filter_role, list[idx + 1])
         THEN AppResultLoop(I, pos + 1, list, filter_role, acc)
         ELSE AppResultLoop(I, pos + 1, list, filter_role,
                  Append(acc, [hit_message |-> list[idx + 1], score |-> pos,
                               original_faiss_idx |-> idx]))

\* results_to_display[:10], line 192.
TopResultsLast(rs) == SubSeq(rs, Len(rs) - Min(DisplayLimit, Len(rs)) + 1, Len(rs))

TopResults(rs) == SubSeq(rs, 1, Min(DisplayLimit, Len(rs)))

\* streamlit_app.py lines 192-269: the loop over the results to display; the
\* expander of a hit with a conversation id shows the thread that
\* get_full_conversation_messages gives.
RECURSIVE DisplayLoop(_, _, _, _)
DisplayLoop(rs, list, cache, shown) ==
    IF rs = <<>> THEN [shown |-> shown, cache |-> cache]
    ELSE LET res == Head(rs)
             conversation_id == Get(res.hit_message.conversation_id, PyNone)
         IN
         IF Truthy(conversation_id)
         THEN LET call == get_full_conversation_messages(conversation_id,
                                                         list, cache)
              IN DisplayLoop(Tail(rs), list, call.cache,
                     Append(shown, [idx |-> res.original_faiss_idx,
                                    score |-> res.score,
                                    record |-> res.hit_message,
                                    expanded |-> TRUE,
                                    thread |-> call.result]))
         ELSE DisplayLoop(Tail(rs), list, cache,
                  Append(shown, [idx |-> res.original_faiss_idx,
                                 score |-> res.score,
                                 record |-> res.hit_message,
                                 expanded |-> FALSE, thread |-> <<>>]))

\* The app is loaded and a script run starts on an empty page.
AppReady ==
    /\ consumer = [kind |-> "app", pc |-> "ready"]
    /\ last_run = NoRun

\* The output of the last run is over: the CLI loop is back at input(), the
\* app's page is cleared for the next script run.
AwaitInput ==
    /\ consumer.pc = "ready"
    /\ last_run # NoRun
    /\ last_run' = NoRun
    /\ UNCHANGED <<buildVars, fileVars, consumer, metadata, index,
                   thread_cache>>
    /\ UNCHANGED <<insightVars, sessionVars>>

\* streamlit_app.py lines 160, 274-275: a script run with an empty
\* search_query.
AppNoQuery ==
    /\ AppReady
    /\ \E q \in Queries, f \in RoleFilters :
        /\ q = <<>>
        /\ last_run' = [NoRun EXCEPT !.kind = "app", !.query = q,
                                     !.filter_role = f,
                                     !.messages = {"type_a_question"}]
    /\ UNCHANGED <<buildVars, fileVars, consumer, metadata, index,
                   thread_cache>>
    /\ UNCHANGED <<insightVars, sessionVars>>

\* streamlit_app.py lines 164-166, 272-273: get_embedding gives None.
AppEmbedFail ==
    /\ AppReady
    /\ \E q \in Queries, f \in RoleFilters :
        /\ q # <<>>
        /\ last_run' = [NoRun EXCEPT !.kind = "app", !.query = q,
                                     !.filter_role = f,
                                     !.embed_called = TRUE,
                                     !.messages = {"embed_error"}]
    /\ UNCHANGED <<buildVars, fileVars, consumer, metadata, index,
                   thread_cache>>
    /\ UNCHANGED <<insightVars, sessionVars>>

\* streamlit_app.py lines 164-269 for the query q, the role filter f and the
\* I[0] that the search gave: what the script run displays, and the cache of
\* get_full_conversation_messages after it.
AppSearchRun(q, f, I) ==
    LET results_to_display ==
            IF Len(I) = 0 \/ I[1] = -1 THEN <<>>
            ELSE AppResultLoop(I, 1, metadata.list, f, <<>>)
        out == DisplayLoop(TopResults(results_to_display),
                           metadata.list, thread_cache, <<>>)
    IN [run |-> [NoRun EXCEPT !.kind = "app", !.query = q,
                              !.filter_role = f,
                              !.embed_called = TRUE, !.embed_ok = TRUE,
                              !.searched = TRUE, !.I = I,
                              !.results_to_display = results_to_display,
                              !.displayed = out.shown,
                              !.messages =
                                  IF Len(I) = 0 \/ I[1] = -1
                                  THEN {"no_relevant_thoughts"}
                                  ELSE IF results_to_display = <<>>
                                  THEN {"no_results_match"}
                                  ELSE {}],
        cache |-> out.cache]

\* streamlit_app.py lines 164-269: the query is embedded, the index searched,
\* the results filtered and the first of them displayed.
AppSearch ==
    /\ AppReady
    /\ \E q \in Queries, f \in RoleFilters :
        /\ q # <<>>
        /\ \E order \in Orders(Len(index.vectors), AppK) :
            LET call == AppSearchRun(q, f, SearchResult(order, AppK))
            IN /\ last_run' = call.run
               /\ thread_cache' = call.cache
    /\ UNCHANGED <<buildVars, fileVars, consumer, metadata, index>>
    /\ UNCHANGED <<insightVars, sessionVars>>

\* The records of the list with the role of every displayed hit replaced by
\* the name that the page shows for it (lines 130-132).
RelabelShown(list, shown) ==
    [j \in 1..Len(list) |->
        IF \E k \in 1..Len(shown) : shown[k].idx = j - 1
        THEN [list[j] EXCEPT !.role = IF @ = "user" THEN "Zain"
                                      ELSE "OpenAI Model"]
        ELSE list[j]]

\* The script run that follows a search as a bug would have it: the display
\* loop writes the name it shows for the role into hit_message, a record of
\* the list that st.cache_resource hands to every script run, so that the
\* next run filters on the changed role.
AppSearchNextRelabelsRoles ==
    /\ consumer = [kind |-> "app", pc |-> "ready"]
    /\ last_run.kind = "app"
    /\ last_run.searched
    /\ \E f \in RoleFilters :
        /\ \E order \in Orders(Len(index.vectors), AppK) :
            LET I == SearchResult(order, AppK)
                call == AppSearchRun(last_run.query, f, I)
            IN /\ last_run' =
                      [call.run EXCEPT !.resubmitted =
                                           /\ f = last_run.filter_role
                                           /\ I = last_run.I]
               /\ thread_cache' = call.cache
               /\ metadata' =
                      [metadata EXCEPT !.list =
                           RelabelShown(metadata.list, call.run.displayed)]
    /\ UNCHANGED <<buildVars, fileVars, consumer, index>>
    /\ UNCHANGED <<insightVars, sessionVars>>

\* streamlit_app.py lines 141-269: the script run that follows a search, with
\* the page of that search still shown, when the query is submitted again or
\* a role filter is selected: the metadata list and the index come from
\* st.cache_resource (lines 36, 52), st.text_input holds the query of the run
\* before (line 158), which is embedded, the index is searched, the results
\* are filtered and the first of them displayed. resubmitted tells that the
\* role filter and the I[0] of the search are those of the script run before.
AppSearchNext ==
    /\ consumer = [kind |-> "app", pc |-> "ready"]
    /\ last_run.kind = "app"
    /\ last_run.searched
    /\ \E f \in RoleFilters :
        /\ \E order \in Orders(Len(index.vectors), AppK) :
            LET I == SearchResult(order, AppK)
                call == AppSearchRun(last_run.query, f, I)
            IN /\ last_run' =
                      [call.run EXCEPT !.resubmitted =
                                           /\ f = last_run.filter_role
                                           /\ I = last_run.I]
               /\ thread_cache' = call.cache
    /\ UNCHANGED <<buildVars, fileVars, consumer, metadata, index>>
    /\ UNCHANGED <<insightVars, sessionVars>>

\* streamlit_app.py lines 202-206 for the hit at handle h: the thread of the
\* hit's conversation, as the expander of a displayed hit shows it.
AppReconstruct ==
    /\ AppReady
    /\ \E h \in 0..(Len(metadata.list) - 1) :
        LET hit == metadata.list[h + 1]
            conversation_id == Get(hit.conversation_id, PyNone)
            call == get_full_conversation_messages(conversation_id,
                                                   metadata.list, thread_cache)
        IN /\ Truthy(conversation_id)
           /\ last_run' = [NoRun EXCEPT !.kind = "thread",
                                        !.conversation_id = conversation_id,
                                        !.thread = call.result]
           /\ thread_cache' = call.cache
    /\ UNCHANGED <<buildVars, fileVars, consumer, metadata, index>>
    /\ UNCHANGED <<insightVars, sessionVars>>

\* The conversation ids a caller can pass: two ids and the empty string.
ConversationIds == {Str(<<"a">>), Str(<<"b">>), Str(<<>>)}

\* A call get_full_conversation_messages(c, metadata_list_for_faiss).
CallReconstructor ==
    /\ AppReady
    /\ \E c \in ConversationIds :
        LET call == get_full_conversation_messages(c, metadata.list,
                                                   thread_cache)
        IN /\ last_run' = [NoRun EXCEPT !.kind = "call",
                                        !.conversation_id = c,
                                        !.thread = call.result]
           /\ thread_cache' = call.cache
    /\ UNCHANGED <<buildVars, fileVars, consumer, metadata, index>>
    /\ UNCHANGED <<insightVars, sessionVars>>

----------------------------------------------------------------------------
(* batch_process_insights.py: get_full_conversation_text_for_llm.          *)

USER_PREFIX == <<"U", "s", "e", "r">>
ASSISTANT_PREFIX == <<"A", "s", "s", "i", "s", "t", "a", "n", "t">>

\* str(v) of a content that is not a string.
PyStr(v) ==
    CASE v.type = "str" -> v.chars
      [] v.type = "num" -> DecimalChars(v.n)
      [] v.type = "none" -> <<"N", "o", "n", "e">>
      [] OTHER -> <<"{", "'", "k", "'", ":", " ", "1", "}">>

\* "\n".join(parts)
RECURSIVE JoinLines(_)
JoinLines(parts) ==
    IF parts = <<>> THEN <<>>
    ELSE IF Len(parts) = 1 THEN parts[1]
    ELSE parts[1] \o <<"\n">> \o JoinLines(Tail(parts))

\* list.sort(key=...) of a list of fewer than 64 elements, as CPython sorts
\* it, for the keys in the order of the list: the run at the head of the list
\* is taken as it stands, turned round when it descends, and each later
\* element goes where a binary search with < puts it. The result is the order
\* of the places of the list. Only < is asked, which is FALSE on a nan.
RunEnd(keys) ==
    LET Goes(i) == IF FloatLess(keys[2], keys[1])
                   THEN FloatLess(keys[i], keys[i - 1])
                   ELSE ~FloatLess(keys[i], keys[i - 1])
    IN CHOOSE n \in 2..Len(keys) :
           /\ \A i \in 2..n : Goes(i)
           /\ n < Len(keys) => ~Goes(n + 1)

RECURSIVE Bisect(_, _, _, _, _)
Bisect(keys, order, pivot, l, r) ==
    IF l >= r THEN l
    ELSE LET p == l + ((r - l) \div 2) IN
         IF FloatLess(keys[pivot], keys[order[p + 1]])
         THEN Bisect(keys, order, pivot, l, p)
         ELSE Bisect(keys, order, pivot, p + 1, r)

RECURSIVE BinarySort(_, _, _)
BinarySort(keys, order, next) ==
    IF next > Len(keys) THEN order
    ELSE LET at == Bisect(keys, order, next, 0, Len(order)) IN
         BinarySort(keys,
                    SubSeq(order, 1, at) \o <<next>>
                        \o SubSeq(order, at + 1, Len(order)),
                    next + 1)

SortFromRun(keys, n) ==
    BinarySort(keys,
               IF FloatLess(keys[2], keys[1])
               THEN [j \in 1..n |-> n + 1 - j]
               ELSE [j \in 1..n |-> j],
               n + 1)

ListSortOrder(keys) ==
    IF Len(keys) < 2 THEN [j \in 1..Len(keys) |-> j]
    ELSE SortFromRun(keys, RunEnd(keys))

\* float(x["timestamp"]) of every record of the list.
TimestampKeys(ms) == <<>> \o [j \in 1..Len(ms) |-> PyFloat(ms[j].timestamp)]

Reordered(ms, order) == [j \in 1..Len(ms) |-> ms[order[j]]]

SortByKeys(ms, keys) ==
    Reordered(ms, ListSortOrder([j \in 1..Len(keys) |-> keys[j].t]))

\* Line 50: conversation_messages.sort(key=float(timestamp)), when float()
\* raises on no record.
SortByTimestamp(ms) == SortByKeys(ms, TimestampKeys(ms))

\* Lines 56-61: one line of the text.
LlmInputPart(msg) ==
    (IF msg.role = "user" THEN USER_PREFIX ELSE ASSISTANT_PREFIX)
    \o <<":", " ">> \o Strip(PyStr(Get(msg.content, Str(<<>>))))

LlmInputParts(sorted) == [j \in 1..Len(sorted) |-> LlmInputPart(sorted[j])]

\* Lines 46-63: the text of the records of the conversation, keys being the
\* floats that the sort of line 50 takes of their timestamps.
TextOfMessages(conversation_messages, keys) ==
    IF conversation_messages = <<>> THEN PyNone
    ELSE IF \E j \in 1..Len(keys) : ~keys[j].ok THEN PyNone
    ELSE Str(JoinLines(LlmInputParts(SortByKeys(conversation_messages,
                                                keys))))

ConversationText(conversation_messages) ==
    TextOfMessages(conversation_messages, TimestampKeys(conversation_messages))

\* Lines 34-63. The result is None (PyNone) or the text: None when the
\* conversation has no record with a timestamp, and when float() raises on
\* the timestamp of any of its records.
get_full_conversation_text_for_llm(conversation_id, all_metadata) ==
    LET Of(msg) == /\ Get(msg.conversation_id, PyNone) = conversation_id
                   /\ Get(msg.timestamp, PyNone) # PyNone
    IN ConversationText(SelectSeq(all_metadata, Of))

----------------------------------------------------------------------------
(* batch_process_insights.py: generate_insights_for_text.                  *)

UpperChar(c) == CaseOf(c, UPPER_TO_ASCII, LOWERCASE, UPPERCASE)

\* str.upper()
Upper(cs) == Joined([j \in 1..Len(cs) |-> UpperChar(cs[j])])

\* str.startswith(prefix)
StartsWith(cs, prefix) ==
    /\ Len(cs) >= Len(prefix)
    /\ SubSeq(cs, 1, Len(prefix)) = prefix

\* str.replace(old, ""): every occurrence of old, from the left, removed.
RECURSIVE RemoveAll(_, _)
RemoveAll(cs, old) ==
    IF cs = <<>> THEN <<>>
    ELSE IF StartsWith(cs, old)
         THEN RemoveAll(SubSeq(cs, Len(old) + 1, Len(cs)), old)
         ELSE <<Head(cs)>> \o RemoveAll(Tail(cs), old)

\* str.split(sep) for a separator of one character: the pieces between the
\* separators, empty ones kept; cur is the piece being read.
RECURSIVE SplitOn(_, _, _)
SplitOn(cs, sep, cur) ==
    IF cs = <<>> THEN <<cur>>
    ELSE IF Head(cs) = sep THEN <<cur>> \o SplitOn(Tail(cs), sep, <<>>)
    ELSE SplitOn(Tail(cs), sep, Append(cur, Head(cs)))

SUMMARY_PREFIX == <<"S", "U", "M", "M", "A", "R", "Y", ":">>
KEYWORDS_PREFIX == <<"K", "E", "Y", "W", "O", "R", "D", "S", ":">>

\* Lines 98-105: the loop over the lines of the response; a later line with
\* a prefix replaces what an earlier one gave.
RECURSIVE ScanLines(_, _, _)
ScanLines(lines, summary_line, keywords_line) ==
    IF lines = <<>>
    THEN [summary_line |-> summary_line, keywords_line |-> keywords_line]
    ELSE LET line == Head(lines) IN
         IF StartsWith(Upper(line), SUMMARY_PREFIX)
         THEN ScanLines(Tail(lines), Strip(RemoveAll(line, SUMMARY_PREFIX)),
                        keywords_line)
         ELSE IF StartsWith(Upper(line), KEYWORDS_PREFIX)
         THEN ScanLines(Tail(lines), summary_line,
                        Strip(RemoveAll(line, KEYWORDS_PREFIX)))
         ELSE ScanLines(Tail(lines), summary_line, keywords_line)

\* Line 107: the stripped, non-empty pieces between the commas.
KeywordsList(keywords_line) ==
    LET pieces == SplitOn(keywords_line, ",", <<>>)
        stripped == [j \in 1..Len(pieces) |-> Strip(pieces[j])]
    IN SelectSeq(stripped, LAMBDA kw : kw # <<>>)

\* What the text-generation service does with one request: it raises, or it
\* answers with a content.
Raises == [raises |-> TRUE, content |-> <<>>]
Answers(content) == [raises |-> FALSE, content |-> content]

\* (None, None), without and with a request made.
NoInsight ==
    [called |-> FALSE, none |-> TRUE, summary |-> <<>>, keywords |-> <<>>]
FailedInsight ==
    [called |-> TRUE, none |-> TRUE, summary |-> <<>>, keywords |-> <<>>]

\* Lines 65-117: (summary, keywords) for a text and what the service does with
\* the request, and whether the request was made. The function returns both
\* as None (none is TRUE) or neither.
generate_insights_for_text(conversation_text, reply) ==
    IF ~Truthy(conversation_text) \/ Strip(conversation_text.chars) = <<>>
    THEN NoInsight
    ELSE IF reply.raises
    THEN FailedInsight
    ELSE LET scan == ScanLines(SplitOn(reply.content, "\n", <<>>), <<>>, <<>>)
             keywords_list == KeywordsList(scan.keywords_line)
         IN IF scan.summary_line = <<>> /\ keywords_list = <<>>
            THEN FailedInsight
            ELSE [called |-> TRUE, none |-> FALSE,
                  summary |-> scan.summary_line, keywords |-> keywords_list]

----------------------------------------------------------------------------
(* Inputs.                                                                 *)

Record(id, conv, role, content, ts) ==
    [message_id |-> id, conversation_id |-> conv, role |-> role,
     content |-> content, timestamp |-> ts]

\* The sequences of at most n elements of S.
SeqsUpTo(S, n) == UNION {[1..m -> S] : m \in 0..n}

HELLO == <<"a", "b", "c">>

\* Contents of a record of the source, for the sanitizer.
SanitizerContents ==
    {Missing, PyNone, Num(5), Obj,
     Str(<<>>), Str(<<" ">>), Str(<<"a", "b">>), Str(<<" ", "a", "b", "\n">>),
     Str(BRACES), Str(<<" ">> \o BRACES), Str(BRACKETS),
     Str(<<"a", "b", "\r", "\n">>),
     Str(HELLO), Str(<<"\n">> \o HELLO \o <<" ">>),
     Str(<<RunBelow>>), Str(<<" ", RunBelow, " ">>),
     Str(<<RunAt>>), Str(<<RunBelow, "a">>), Str(<<"a", "b", EndOfText>>)}

\* Record i of a source whose contents are cs.
SourceOfContents(cs) ==
    [i \in 1..Len(cs) |-> Record(i, Str(<<"a">>), "user", cs[i], Num(i))]

\* Records of a source for the build: the content is kept or dropped, the
\* conversation is one of two, the timestamp is the position.
BuildKinds ==
    [content : {Str(HELLO), Str(<<" ", "x", "y", "z">>), Str(<<"a", "b">>)},
     conversation_id : {Str(<<"a">>), Str(<<"b">>)}]

SourceOfKinds(ks) ==
    [i \in 1..Len(ks) |->
        Record(i, ks[i].conversation_id, "user", ks[i].content, Num(i))]

\* Records of a Metadata Store for the reconstructor: conversation id and
\* timestamp vary.
ThreadKinds ==
    [conversation_id : {Str(<<"a">>), Str(<<"b">>), Missing},
     timestamp : {Missing, Num(0), Num(1), Str(<<"1", ".", "5">>),
                  Str(<<"2", "0", "2", "4", "-", "0", "1">>),
                  Num(1730613540), Num(1730613600)}]

StoreOfThreadKinds(ks) ==
    [i \in 1..Len(ks) |->
        Record(i, ks[i].conversation_id, "user", Str(HELLO), ks[i].timestamp)]

\* Timestamps of the one record of a Metadata Store that the apps load: a
\* fractional second, 10^12 (a year beyond 9999), an infinity, nan, 10^17
\* (beyond localtime()), 123 in Arabic-Indic digits, 5 after U+001C, and a
\* day of July 2038.
LoadTimestamps ==
    {Str(<<"1", ".", "5">>), Str(<<"1", "e", "1", "2">>),
     Str(<<"i", "n", "f">>), Str(<<"n", "a", "n">>),
     Str(<<"1", "E", "+", "1", "7">>),
     Str(<<"U+0661", "U+0662", "U+0663">>), Str(<<"", "5">>),
     Str(<<"2", "1", "6", "2", "0", "0", "0", "0", "0", "0">>)}

\* Records of a Metadata Store for the query runs: the role varies, the
\* records alternate between two conversations.
QueryRoles == {"user", "assistant", "system"}

StoreOfRoles(rs) ==
    [i \in 1..Len(rs) |->
        Record(i, IF i % 2 = 1 THEN Str(<<"a">>) ELSE Str(<<"b">>), rs[i],
               Str(HELLO), Num(i))]

\* An index of n vectors.
IndexOfSize(n) ==
    [gen |-> 1, vectors |-> [i \in 1..n |-> Embed(<<"v">>)]]

\* Records of a Metadata Store for the batch insight run: the conversation id
\* is a string, a number above or below 0 or None, the timestamp is a number,
\* missing or a text that float() refuses.
InsightKinds ==
    <<[conversation_id |-> Str(<<"a">>), timestamp |-> Num(1)],
     [conversation_id |-> Str(<<"a">>), timestamp |-> Missing],
     [conversation_id |-> Str(<<"b">>), timestamp |-> Num(1)],
     [conversation_id |-> Str(<<"b">>),
      timestamp |-> Str(<<"2", "0", "2", "4", "-", "0", "1">>)],
     [conversation_id |-> Str(<<"c">>), timestamp |-> Num(1)],
     [conversation_id |-> Num(1), timestamp |-> Num(1)],
     [conversation_id |-> Num(-5), timestamp |-> Num(1)],
     [conversation_id |-> PyNone, timestamp |-> Num(1)]>>

\* Record i of the store is of kind ks[i], a place in InsightKinds. The run
\* sorts the conversation ids, so that the stores with the kinds in the order
\* of InsightKinds stand for those with the same records in another order.
StoreOfInsightKinds(ks) ==
    [i \in 1..Len(ks) |->
        Record(i, InsightKinds[ks[i]].conversation_id, "user", Str(HELLO),
               InsightKinds[ks[i]].timestamp)]

InKindOrder(ks) == \A i, j \in 1..Len(ks) : i < j => ks[i] <= ks[j]

\* What the text-generation service does with a request: it raises, or it
\* answers with a summary and two keywords, with six keywords and no
\* summary, or with a text that has neither line.
GOOD_CONTENT ==
    SUMMARY_PREFIX \o <<" ", "s", "\n">> \o KEYWORDS_PREFIX
    \o <<" ", "a", ",", " ", "b">>
SIX_KEYWORDS_CONTENT ==
    KEYWORDS_PREFIX
    \o <<" ", "a", ",", "b", ",", "c", ",", "d", ",", "e", ",", "f">>
NO_LINES_CONTENT == <<"o", "k">>

Replies ==
    {Raises, Answers(GOOD_CONTENT), Answers(SIX_KEYWORDS_CONTENT),
     Answers(NO_LINES_CONTENT)}

\* Records of a Metadata Store for the direct calls of
\* get_full_conversation_text_for_llm: two conversations, timestamps that are
\* missing, numbers, a text of digits and a text that float() refuses. Record
\* i has a content of its own, a letter with a blank to strip or, for the
\* third record, the number -12, and the roles alternate.
TextKinds ==
    [conversation_id : {Str(<<"a">>), Str(<<"b">>)},
     timestamp : {Missing, Num(1), Num(2), Str(<<"1", ".", "5">>),
                  Str(<<"2", "0", "2", "4", "-", "0", "1">>)}]

StoreOfTextKinds(ks) ==
    [i \in 1..Len(ks) |->
        Record(i, ks[i].conversation_id,
               IF i % 2 = 1 THEN "user" ELSE "assistant",
               IF i = 3 THEN Num(-12) ELSE Str(<<" ", LOWERCASE[i]>>),
               ks[i].timestamp)]

\* The conversation texts of the direct calls of generate_insights_for_text.
Texts == {PyNone, Str(<<" ">>), Str(USER_PREFIX \o <<":", " ", "a">>)}

\* The answers of the text-generation service to the direct calls: those of
\* Replies, and contents with the prefixes in lower case, with a prefix and
\* nothing after it, with a prefix twice in a line, with an empty item
\* between the commas, and with a blank before the prefix.
ParseReplies ==
    Replies \cup
    {Answers(<<"s", "u", "m", "m", "a", "r", "y", ":", " ", "s">>),
     Answers(<<"S", "u", "m", "m", "a", "r", "y", ":", " ", "s", "\n",
               "K", "e", "y", "w", "o", "r", "d", "s", ":", " ", "a">>),
     Answers(SUMMARY_PREFIX),
     Answers(SUMMARY_PREFIX \o <<" ", "\n">> \o KEYWORDS_PREFIX \o <<" ", ",">>),
     Answers(SUMMARY_PREFIX \o <<" ", "s", " ">> \o SUMMARY_PREFIX \o <<" ", "t">>),
     Answers(KEYWORDS_PREFIX \o <<" ", "a", ",", " ", ",", "b", " ">>),
     Answers(<<" ">> \o SUMMARY_PREFIX \o <<" ", "s">>),
     Answers(SUMMARY_PREFIX \o <<" ", "s", " ">>)}

----------------------------------------------------------------------------
(* batch_process_insights.py: main().                                      *)

NoInsightsFile == [state |-> "absent", members |-> <<>>]

\* The Insight Cache files that the loading app finds: none, and the empty
\* file that a save leaves between its open and its dump.
LoadInsightsFiles == {NoInsightsFile, [state |-> "corrupt", members |-> <<>>]}

\* No run was started yet.
NoRunYet == [at_start |-> NoInsightsFile, end |-> "none", total |-> 0]

\* The entries of lines 206 and 224.
NO_TEXT ==
    <<"E", "r", "r", "o", "r", ":", " ", "N", "o", " ", "p", "r", "o", "c",
      "e", "s", "s", "a", "b", "l", "e", " ", "t", "e", "x", "t">>
FAILED_TO_GENERATE ==
    <<"E", "r", "r", "o", "r", ":", " ", "F", "a", "i", "l", "e", "d", " ",
      "t", "o", " ", "g", "e", "n", "e", "r", "a", "t", "e">>

NoTextMarker == [summary |-> NO_TEXT, keywords |-> <<>>]
FailureMarker == [summary |-> FAILED_TO_GENERATE, keywords |-> <<>>]

\* Lines 144-152: existing_insights, {} when the file is absent or json.load
\* raises JSONDecodeError.
LoadExistingInsights(file) ==
    IF file.state = "ok" THEN JsonLoad(file.members, <<>>) ELSE <<>>

\* Lines 158-160, before sorted(): the distinct conversation ids that are not
\* None.
ConversationIdsOf(all_metadata) ==
    LET ids == [j \in 1..Len(all_metadata) |->
                   Get(all_metadata[j].conversation_id, PyNone)]
    IN Distinct(SelectSeq(ids, LAMBDA c : c # PyNone), <<>>)

\* Lines 168-184: ids_to_process.
IdsToProcess(unique_conversation_ids_all, existing) ==
    IF Len(unique_conversation_ids_all) > TestSubsetSize
    THEN LET unprocessed_ids ==
                 SelectSeq(unique_conversation_ids_all,
                           LAMBDA cid : ~DictHas(existing, cid))
         IN IF Len(unprocessed_ids) >= TestSubsetSize
            THEN SubSeq(unprocessed_ids, 1, TestSubsetSize)
            ELSE IF unprocessed_ids # <<>> THEN unprocessed_ids
            ELSE SubSeq(unique_conversation_ids_all, 1, TestSubsetSize)
    ELSE unique_conversation_ids_all

\* Line 229: whether the iteration i (from 0) of n saves.
SaveDue(new_insights, i, n) ==
    /\ new_insights > 0
    /\ (new_insights % SaveEvery = 0 \/ i = n - 1)

\* Lines 119-192: main() starts: the metadata and the insights are loaded and
\* the ids are selected. It returns early on missing or empty metadata and
\* when no record has a conversation id, and it ends on the TypeError of
\* sorted() when the ids are strings and numbers. The script can be invoked
\* again whenever it is not running, any number of times; run_no tells a run
\* from the run before it and counts from 1 to MaxRuns, then from 1 again.
InsightStart ==
    /\ ipc \in {"idle", "done", "returned", "killed", "crashed"}
    /\ run_no' = (run_no % MaxRuns) + 1
    /\ events' = <<>>
    /\ loop_i' = 0
    /\ new_insights_generated_this_session' = 0
    /\ LET loaded == metadata_file.state = "ok" /\ metadata_file.records # <<>>
           existing == LoadExistingInsights(insights_file)
           ids == ConversationIdsOf(metadata_file.records)
           end == IF ~loaded THEN "returned"
                  ELSE IF SortedRaises(ids) THEN "crashed"
                  ELSE IF ids = <<>> THEN "returned"
                  ELSE "running"
       IN /\ all_metadata_list' = IF loaded THEN metadata_file.records ELSE <<>>
          /\ existing_insights' = IF loaded THEN existing ELSE <<>>
          /\ ids_to_process' =
                 IF end = "running"
                 THEN IdsToProcess(Sorted(ids, <<>>), existing) ELSE <<>>
          /\ ipc' = IF end = "running" THEN "loop" ELSE end
          /\ this_run' = [at_start |-> insights_file, end |-> end,
                          total |-> 0]
    /\ gen_log' = <<>>
    /\ failed_earlier' =
           IF this_run.end = "done"
           THEN failed_earlier
                \cup {gen_log[j].id : j \in {k \in 1..Len(gen_log) :
                                                ~gen_log[k].ok}}
           ELSE failed_earlier
    /\ UNCHANGED <<insights_file, returned>>
    /\ UNCHANGED pipelineVars

\* Lines 194-197: the id is in existing_insights: next iteration.
InsightSkip ==
    /\ ipc = "loop"
    /\ loop_i < Len(ids_to_process)
    /\ DictHas(existing_insights, ids_to_process[loop_i + 1])
    /\ loop_i' = loop_i + 1
    /\ UNCHANGED <<insights_file, ipc, run_no, all_metadata_list,
                   existing_insights, ids_to_process,
                   new_insights_generated_this_session, gen_log, events,
                   this_run, failed_earlier, returned>>
    /\ UNCHANGED pipelineVars

\* Lines 194-207: the conversation has no text: the entry of line 206 is set,
\* next iteration.
InsightNoText ==
    /\ ipc = "loop"
    /\ loop_i < Len(ids_to_process)
    /\ LET conv_id == ids_to_process[loop_i + 1] IN
       /\ ~DictHas(existing_insights, conv_id)
       /\ ~Truthy(get_full_conversation_text_for_llm(conv_id,
                                                     all_metadata_list))
       /\ existing_insights' = DictSet(existing_insights, conv_id, NoTextMarker)
    /\ loop_i' = loop_i + 1
    /\ UNCHANGED <<insights_file, ipc, run_no, all_metadata_list,
                   ids_to_process, new_insights_generated_this_session,
                   gen_log, events, this_run,
                   failed_earlier, returned>>
    /\ UNCHANGED pipelineVars

\* The iteration with a generation whose failure moves on to the next
\* iteration at once, as lines 204-207 do.
InsightGenerateFailureContinues ==
    /\ ipc = "loop"
    /\ loop_i < Len(ids_to_process)
    /\ LET conv_id == ids_to_process[loop_i + 1]
           text == get_full_conversation_text_for_llm(conv_id,
                                                      all_metadata_list)
       IN /\ ~DictHas(existing_insights, conv_id)
          /\ Truthy(text)
          /\ \E reply \in Replies :
               LET g == generate_insights_for_text(text, reply)
                   n == new_insights_generated_this_session
                        + (IF g.none THEN 0 ELSE 1)
               IN /\ existing_insights' =
                        DictSet(existing_insights, conv_id,
                                IF g.none THEN FailureMarker
                                ELSE [summary |-> g.summary,
                                      keywords |-> g.keywords])
                  /\ new_insights_generated_this_session' = n
                  /\ gen_log' = Append(gen_log, [id |-> conv_id, ok |-> ~g.none])
                  /\ events' = Append(events, "call")
                  /\ ipc' = IF g.none THEN "loop"
                            ELSE IF SaveDue(n, loop_i, Len(ids_to_process))
                            THEN "save" ELSE "sleep"
                  /\ loop_i' = IF g.none THEN loop_i + 1 ELSE loop_i
    /\ UNCHANGED <<insights_file, run_no, all_metadata_list, ids_to_process,
                   this_run, failed_earlier, returned>>
    /\ UNCHANGED pipelineVars

\* Lines 212-229: the result g of the generation, or the failure marker, is
\* set, n insights being generated in this session; then the save of line
\* 229 is due or the sleep of line 239.
InsightSet(conv_id, g, n) ==
    /\ existing_insights' =
           DictSet(existing_insights, conv_id,
                   IF g.none THEN FailureMarker
                   ELSE [summary |-> g.summary, keywords |-> g.keywords])
    /\ new_insights_generated_this_session' = n
    /\ gen_log' = IF g.called
                  THEN Append(gen_log, [id |-> conv_id, ok |-> ~g.none])
                  ELSE gen_log
    /\ events' = IF g.called THEN Append(events, "call") ELSE events
    /\ ipc' = IF SaveDue(n, loop_i, Len(ids_to_process))
              THEN "save" ELSE "sleep"

InsightGenerated(conv_id, g) ==
    InsightSet(conv_id, g,
               new_insights_generated_this_session
                   + (IF g.none THEN 0 ELSE 1))

\* Lines 204-210: the text is there and the generation is requested.
InsightRequested(conv_id, text, replies) ==
    /\ Truthy(text)
    /\ \E reply \in replies :
           InsightGenerated(conv_id, generate_insights_for_text(text, reply))

\* Lines 194-229: the conversation has a text: the generation is requested
\* and its result or the failure marker is set; then the save of line 229 is
\* due or the sleep of line 239. replies is what the service can do with the
\* request.
InsightGenerateOn(replies) ==
    /\ ipc = "loop"
    /\ loop_i < Len(ids_to_process)
    /\ ~DictHas(existing_insights, ids_to_process[loop_i + 1])
    /\ InsightRequested(ids_to_process[loop_i + 1],
                        get_full_conversation_text_for_llm(
                            ids_to_process[loop_i + 1], all_metadata_list),
                        replies)
    /\ UNCHANGED <<insights_file, run_no, all_metadata_list, ids_to_process,
                   loop_i, this_run, failed_earlier, returned>>
    /\ UNCHANGED pipelineVars

InsightGenerate == InsightGenerateOn(Replies)

\* The iteration when the service answers every request in the format asked
\* for.
AnsweredReplies == {Answers(GOOD_CONTENT), Answers(SIX_KEYWORDS_CONTENT)}

InsightGenerateAnswered == InsightGenerateOn(AnsweredReplies)

\* Lines 194-204: the loop stands at an id that is not in existing_insights
\* and has a text, so that line 210 is next: the states in which
\* InsightGenerateAnswered is enabled.
GenerationDue ==
    /\ ipc = "loop"
    /\ loop_i < Len(ids_to_process)
    /\ ~DictHas(existing_insights, ids_to_process[loop_i + 1])
    /\ Truthy(get_full_conversation_text_for_llm(ids_to_process[loop_i + 1],
                                                 all_metadata_list))

\* Lines 194-206: the loop stands at an id that is not in existing_insights
\* and has no text: the states in which InsightNoText is enabled.
NoTextDue ==
    /\ ipc = "loop"
    /\ loop_i < Len(ids_to_process)
    /\ ~DictHas(existing_insights, ids_to_process[loop_i + 1])
    /\ ~Truthy(get_full_conversation_text_for_llm(ids_to_process[loop_i + 1],
                                                  all_metadata_list))

\* Line 231: open(OUTPUT_INSIGHTS_PATH, "w") empties the file.
InsightSaveOpen ==
    /\ ipc = "save"
    /\ insights_file' = [state |-> "corrupt", members |-> <<>>]
    /\ ipc' = "dump"
    /\ UNCHANGED <<run_no, all_metadata_list, existing_insights,
                   ids_to_process, loop_i,
                   new_insights_generated_this_session, gen_log, events,
                   this_run, failed_earlier, returned>>
    /\ UNCHANGED pipelineVars

\* Line 232: json.dump writes existing_insights.
InsightSaveDump ==
    /\ ipc = "dump"
    /\ insights_file' = [state |-> "ok", members |-> JsonDump(existing_insights)]
    /\ ipc' = "sleep"
    /\ UNCHANGED <<run_no, all_metadata_list, existing_insights,
                   ids_to_process, loop_i,
                   new_insights_generated_this_session, gen_log, events,
                   this_run, failed_earlier, returned>>
    /\ UNCHANGED pipelineVars

\* Lines 231-235: open() or the write raises: the file is as it was or is
\* left cut short; the exception is caught and printed (line 235).
InsightSaveFail ==
    /\ ipc \in {"save", "dump"}
    /\ ipc' = "sleep"
    /\ events' = Append(events, "save_error")
    /\ UNCHANGED <<insights_file, run_no, all_metadata_list, existing_insights,
                   ids_to_process, loop_i,
                   new_insights_generated_this_session, gen_log,
                   this_run, failed_earlier, returned>>
    /\ UNCHANGED pipelineVars

\* Line 239: time.sleep(1.1), the end of the iteration.
InsightSleep ==
    /\ ipc = "sleep"
    /\ events' = Append(events, "sleep")
    /\ loop_i' = loop_i + 1
    /\ ipc' = "loop"
    /\ UNCHANGED <<insights_file, run_no, all_metadata_list, existing_insights,
                   ids_to_process, new_insights_generated_this_session,
                   gen_log, this_run, failed_earlier, returned>>
    /\ UNCHANGED pipelineVars

\* Lines 241-243: the loop is over: the session is reported with the number
\* of entries of existing_insights as the total stored.
InsightFinish ==
    /\ ipc = "loop"
    /\ loop_i >= Len(ids_to_process)
    /\ ipc' = "done"
    /\ this_run' = [this_run EXCEPT !.end = "done",
                                    !.total = Len(existing_insights)]
    /\ UNCHANGED <<insights_file, run_no, all_metadata_list, existing_insights,
                   ids_to_process, loop_i,
                   new_insights_generated_this_session, gen_log, events,
                   failed_earlier, returned>>
    /\ UNCHANGED pipelineVars

\* The process is ended from outside in the middle of a run; what it holds in
\* memory is gone and the file stays as the last write left it.
InsightKill ==
    /\ ipc \in {"loop", "save", "dump", "sleep"}
    /\ ipc' = "killed"
    /\ this_run' = [this_run EXCEPT !.end = "killed"]
    /\ all_metadata_list' = <<>>
    /\ existing_insights' = <<>>
    /\ ids_to_process' = <<>>
    /\ loop_i' = 0
    /\ new_insights_generated_this_session' = 0
    /\ UNCHANGED <<insights_file, run_no, gen_log, events, failed_earlier, returned>>
    /\ UNCHANGED pipelineVars

----------------------------------------------------------------------------
(* streamlit_app.py: insights on demand.                                   *)

\* Lines 219-220: one line of the text that the expander collects; the
\* content is formatted as it is, None as "None".
OnDemandPart(ctx_msg) ==
    (IF ctx_msg.role = "user" THEN USER_PREFIX ELSE ASSISTANT_PREFIX)
    \o <<":", " ">> \o PyStr(Get(ctx_msg.content, PyNone))

\* (None, None) of line 96, and of line 123 after the st.error.
NoOnDemandInsight ==
    [called |-> FALSE, none |-> TRUE, error |-> FALSE,
     summary |-> <<>>, keywords |-> <<>>]
FailedOnDemandInsight ==
    [called |-> TRUE, none |-> TRUE, error |-> TRUE,
     summary |-> <<>>, keywords |-> <<>>]

\* Lines 96-123, the body of the function: (summary, keywords) for a text and
\* what the service does with the request. A response without the two lines
\* gives ("", []).
OnDemandInsight(text, reply) ==
    IF text = <<>> THEN NoOnDemandInsight
    ELSE IF reply.raises THEN FailedOnDemandInsight
    ELSE LET scan == ScanLines(SplitOn(reply.content, "\n", <<>>), <<>>, <<>>)
         IN [called |-> TRUE, none |-> FALSE, error |-> FALSE,
             summary |-> scan.summary_line,
             keywords |-> IF scan.keywords_line # <<>>
                          THEN KeywordsList(scan.keywords_line) ELSE <<>>]

\* The function as decorated (line 93): both parameters start with an
\* underscore, so st.cache_data leaves them out of the cache key and a call
\* finds the entry of any earlier call, a returned (None, None) included;
\* the body does not run then and no request is made, and the st.error of
\* the stored call is shown again. cache is <<>> or <<the entry>>.
generate_summary_and_keywords_on_demand(text, conversation_id, reply, cache) ==
    IF cache # <<>>
    THEN [result |-> [cache[1] EXCEPT !.called = FALSE], cache |-> cache]
    ELSE [result |-> OnDemandInsight(text, reply),
          cache |-> <<OnDemandInsight(text, reply)>>]

\* Lines 202-243 for the hit at handle h, the button of line 234 pressed: the
\* thread of the hit's conversation, its text, the look in the pre-calculated
\* insights, and the generation on demand when they have neither a summary
\* nor keywords for the conversation.
AppGenerateInsights ==
    /\ AppReady
    /\ Len(ondemand_log) < MaxClicks
    /\ \E h \in 0..(Len(metadata.list) - 1), reply \in Replies :
        LET hit_message == metadata.list[h + 1]
            conversation_id == Get(hit_message.conversation_id, PyNone)
            thread == get_full_conversation_messages(conversation_id,
                                                     metadata.list,
                                                     thread_cache)
            full_thread_messages == thread.result
            parts == [j \in 1..Len(full_thread_messages) |->
                         OnDemandPart(full_thread_messages[j])]
            cached == DictHas(precalculated_insights, conversation_id)
            insights == DictGet(precalculated_insights, conversation_id)
            call == generate_summary_and_keywords_on_demand(
                        JoinLines(parts), conversation_id, reply,
                        insight_cache)
        IN /\ Truthy(conversation_id)
           /\ full_thread_messages # <<>>
           /\ cached => (insights.summary = <<>> /\ insights.keywords = <<>>)
           /\ thread_cache' = thread.cache
           /\ insight_cache' = call.cache
           /\ ondemand_log' =
                  Append(ondemand_log,
                         [conversation_id |-> conversation_id,
                          requested |-> call.result.called,
                          failed |-> call.result.none,
                          reported |-> call.result.error,
                          summary |-> call.result.summary,
                          keywords |-> call.result.keywords])
           /\ last_run' =
                  [NoRun EXCEPT !.kind = "insights",
                                !.conversation_id = conversation_id,
                                !.thread = full_thread_messages,
                                !.messages =
                                    IF call.result.error
                                    THEN {"ondemand_error"} ELSE {}]
    /\ UNCHANGED <<buildVars, fileVars, consumer, metadata, index>>
    /\ UNCHANGED <<insightVars, precalculated_insights, notices>>

----------------------------------------------------------------------------
(* enhanced_app.py: loading and the Search mode.                           *)

\* Lines 93-98: a record with a timestamp gets datetime_obj, another record
\* is left without the key.
EnhancedWithDatetime(r, tz) ==
    [message_id |-> r.message_id, conversation_id |-> r.conversation_id,
     role |-> r.role, content |-> r.content, timestamp |-> r.timestamp,
     datetime_obj |-> IF Truthy(Get(r.timestamp, PyNone))
                      THEN DatetimeObj(r, tz) ELSE Missing]

\* Lines 88-102, load_metadata on a file that is there: the list when the
\* file is JSON; only FileNotFoundError is caught.
load_metadata(file, tz) ==
    [gen |-> file.gen,
     list |-> [j \in 1..Len(file.records) |->
                  EnhancedWithDatetime(file.records[j], tz)]]

\* Line 282: load_metadata(). A missing file gives [] and the st.error of
\* line 101; on a file that is not JSON json.load raises JSONDecodeError,
\* which nothing catches: the script run ends with the exception on the page.
\* So it does on an exception of fromtimestamp that line 97 does not catch.
EnhancedLoadMetadata ==
    /\ consumer = Off
    /\ \E tz \in TimeZones :
       IF metadata_file.state = "ok"
          /\ ~DatetimeRaised(metadata_file.records, tz)
       THEN /\ metadata' = load_metadata(metadata_file, tz)
            /\ notices' = {}
            /\ consumer' = [kind |-> "enhanced", pc |-> "load_index"]
       ELSE IF metadata_file.state = "absent"
       THEN /\ metadata' = NotLoaded
            /\ notices' = {"metadata_not_found"}
            /\ consumer' = [kind |-> "enhanced", pc |-> "load_index"]
       ELSE /\ metadata' = NotLoaded
            /\ notices' = {"uncaught_exception"}
            /\ consumer' = [kind |-> "enhanced", pc |-> "crashed"]
    /\ UNCHANGED <<buildVars, fileVars, index, thread_cache, last_run>>
    /\ UNCHANGED <<insightVars, onDemandVars>>

\* Line 283: load_faiss_index() (lines 104-110): None and the st.error of
\* line 109 when the index cannot be read. The script goes on to its modes.
EnhancedLoadIndex ==
    /\ consumer = [kind |-> "enhanced", pc |-> "load_index"]
    /\ index' = index_file
    /\ notices' = notices
                  \cup (IF index_file.gen = 0 THEN {"index_not_found"} ELSE {})
    /\ consumer' = [kind |-> "enhanced", pc |-> "ready"]
    /\ UNCHANGED <<buildVars, fileVars, metadata, thread_cache, last_run>>
    /\ UNCHANGED <<insightVars, onDemandVars>>

\* Lines 295-375, a script run in the Search mode: with a query, the first
\* max_results records of the metadata are shown when the metadata and the
\* index are loaded, and "No data loaded" otherwise; the query is not
\* embedded and the index is not searched.
EnhancedSearchMode ==
    /\ consumer = [kind |-> "enhanced", pc |-> "ready"]
    /\ last_run = NoRun
    /\ \E search_query \in Queries, max_results \in 1..MaxResults :
        LET loaded == metadata.list # <<>> /\ index.gen # 0
            shown == SubSeq(metadata.list, 1,
                            Min(max_results, Len(metadata.list)))
        IN last_run' =
             [NoRun EXCEPT
                !.kind = "enhanced",
                !.query = search_query,
                !.displayed =
                    IF search_query # <<>> /\ loaded
                    THEN [j \in 1..Len(shown) |->
                             [idx |-> j - 1, record |-> shown[j]]]
                    ELSE <<>>,
                !.messages =
                    IF search_query = <<>> THEN {}
                    ELSE IF loaded THEN {"search_requires_key"}
                    ELSE {"no_data_loaded"}]
    /\ UNCHANGED <<buildVars, fileVars, consumer, metadata, index,
                   thread_cache>>
    /\ UNCHANGED <<insightVars, sessionVars>>

----------------------------------------------------------------------------
(* Specifications.                                                         *)

\* No helper was called directly.
NoCall == [fn |-> "none"]

\* A direct call of get_full_conversation_text_for_llm (lines 34-63) on the
\* loaded store, and what it returned.
CallTextForLlm ==
    /\ \E c \in {Str(<<"a">>), Str(<<"b">>), Str(<<"c">>)} :
        returned' =
            [fn |-> "get_full_conversation_text_for_llm",
             conversation_id |-> c,
             result |-> get_full_conversation_text_for_llm(c, all_metadata_list)]
    /\ UNCHANGED <<insights_file, ipc, run_no, all_metadata_list,
                   existing_insights, ids_to_process, loop_i,
                   new_insights_generated_this_session, gen_log, events,
                   this_run, failed_earlier>>
    /\ UNCHANGED pipelineVars

\* A direct call of generate_insights_for_text (lines 65-117), what the
\* service did with its request, and what the call returned.
CallGenerateInsights ==
    /\ \E text \in Texts, reply \in ParseReplies :
        returned' =
            [fn |-> "generate_insights_for_text",
             conversation_text |-> text,
             reply |-> reply,
             result |-> generate_insights_for_text(text, reply)]
    /\ UNCHANGED <<insights_file, ipc, run_no, all_metadata_list,
                   existing_insights, ids_to_process, loop_i,
                   new_insights_generated_this_session, gen_log, events,
                   this_run, failed_earlier>>
    /\ UNCHANGED pipelineVars

\* No batch insight run was started.
InsightRunIdle ==
    /\ ipc = "idle"
    /\ run_no = 0
    /\ all_metadata_list = <<>>
    /\ existing_insights = <<>>
    /\ ids_to_process = <<>>
    /\ loop_i = 0
    /\ new_insights_generated_this_session = 0
    /\ gen_log = <<>>
    /\ events = <<>>
    /\ this_run = NoRunYet
    /\ failed_earlier = {}
    /\ returned = NoCall

\* No batch insight run was started and there is no Insight Cache file.
NoInsightRun ==
    /\ insights_file = NoInsightsFile
    /\ InsightRunIdle

\* No insight was requested in the app.
NoSession ==
    /\ precalculated_insights = <<>>
    /\ insight_cache = <<>>
    /\ ondemand_log = <<>>
    /\ notices = {}

BuildIdle ==
    /\ bpc = "idle"
    /\ texts = <<>>
    /\ valid_records = <<>>
    /\ embeddings = <<>>
    /\ batch_i = 0
    /\ batch_log = <<>>
    /\ build_no = 0
    /\ index_file = NoIndexFile
    /\ metadata_file = NoMetadataFile

NoConsumer ==
    /\ consumer = Off
    /\ metadata = NotLoaded
    /\ index = NoIndex
    /\ thread_cache = <<>>
    /\ last_run = NoRun

\* The sanitizer on every source of at most MaxRecords records.
InitSanitize ==
    /\ records \in {SourceOfContents(cs) :
                       cs \in SeqsUpTo(SanitizerContents, MaxRecords)}
    /\ BuildIdle
    /\ NoConsumer
    /\ NoInsightRun
    /\ NoSession

NextSanitize == Sanitize

SpecSanitize == InitSanitize /\ [][NextSanitize]_vars

\* Index builds over a source, and a consumer that starts at any moment.
InitBuild ==
    /\ records \in {SourceOfKinds(ks) : ks \in SeqsUpTo(BuildKinds, MaxRecords)}
    /\ BuildIdle
    /\ NoConsumer
    /\ NoInsightRun
    /\ NoSession

NextBuild ==
    \/ Build
    \/ CliLoadMetadata
    \/ CliLoadIndex
    \/ AppLoadMetadata
    \/ AppLoadIndex
    \/ AppReconstruct
    \/ AwaitInput

SpecBuild == InitBuild /\ [][NextBuild]_vars

\* Index builds over a source, one after the other, with no consumer.
NextEmbed == Build

SpecEmbed == InitBuild /\ [][NextEmbed]_vars

\* The reconstructor of the app over every loaded Metadata Store that holds a
\* record: on an empty list the script stops at streamlit_app.py lines
\* 145-147 and the app is never ready.
InitThread ==
    /\ records = <<>>
    /\ BuildIdle
    /\ consumer = [kind |-> "app", pc |-> "ready"]
    /\ \E ks \in SeqsUpTo(ThreadKinds, MaxRecords) :
        /\ ks # <<>>
        /\ \E tz \in TimeZones :
            metadata = [gen |-> 1,
                        list |-> WithDatetimes(StoreOfThreadKinds(ks), tz)]
    /\ index = IndexOfSize(1)
    /\ thread_cache = <<>>
    /\ last_run = NoRun
    /\ NoInsightRun
    /\ NoSession

NextThread ==
    \/ CallReconstructor
    \/ AwaitInput

SpecThread == InitThread /\ [][NextThread]_vars

\* The query runs of the CLI and of the app over a loaded Metadata Store and
\* a loaded Vector Index, which need not hold as many vectors as the store
\* holds records.
InitQuery ==
    /\ records = <<>>
    /\ BuildIdle
    /\ \E rs \in SeqsUpTo(QueryRoles, MaxRecords) :
        /\ rs # <<>>
        /\ \/ /\ consumer = [kind |-> "cli", pc |-> "ready"]
              /\ metadata = [gen |-> 1, list |-> StoreOfRoles(rs)]
           \/ /\ consumer = [kind |-> "app", pc |-> "ready"]
              /\ metadata = [gen |-> 1,
                             list |-> WithDatetimes(StoreOfRoles(rs), UTC)]
    /\ \E n \in 1..MaxVectors : index = IndexOfSize(n)
    /\ thread_cache = <<>>
    /\ last_run = NoRun
    /\ NoInsightRun
    /\ NoSession

NextQuery ==
    \/ CliEmptyQuery
    \/ CliExit
    \/ CliEmbedFail
    \/ CliSearch
    \/ AppNoQuery
    \/ AppEmbedFail
    \/ AppSearch
    \/ AwaitInput

SpecQuery == InitQuery /\ [][NextQuery]_vars

\* Query runs of the CLI and of the app, one after the other on the loaded
\* Vector Index and Metadata Store, which no step of these replaces. The
\* index holds no more vectors than the store holds records. A search gives
\* the handles in any order, so that the stores with the user records before
\* the assistant records and those before the others stand for the stores
\* with the same roles in another order.
RoleRank(role) ==
    CASE role = "user" -> 1 [] role = "assistant" -> 2 [] OTHER -> 3

InitRepeat ==
    /\ InitQuery
    /\ Len(index.vectors) <= Len(metadata.list)
    /\ \A i, j \in 1..Len(metadata.list) :
          i < j => RoleRank(metadata.list[i].role)
                      <= RoleRank(metadata.list[j].role)

NextRepeat ==
    \/ CliSearch
    \/ CliSearchNext
    \/ AppSearch
    \/ AppSearchNext
    \/ AwaitInput

SpecRepeat == InitRepeat /\ [][NextRepeat]_vars

\* Batch insight runs, one after the other, over the Metadata Store that a
\* build wrote; a run can be ended from outside at any point.
InitInsights ==
    /\ records = <<>>
    /\ bpc = "idle"
    /\ texts = <<>>
    /\ valid_records = <<>>
    /\ embeddings = <<>>
    /\ batch_i = 0
    /\ batch_log = <<>>
    /\ build_no = 1
    /\ \E ks \in SeqsUpTo(1..Len(InsightKinds), MaxInsightRecords) :
        /\ ks # <<>>
        /\ InKindOrder(ks)
        /\ metadata_file = [gen |-> 1, state |-> "ok",
                            records |-> StoreOfInsightKinds(ks)]
        /\ index_file = [gen |-> 1,
                         vectors |-> [i \in 1..Len(ks) |-> Embed(HELLO)]]
    /\ NoConsumer
    /\ NoInsightRun
    /\ NoSession

NextInsights ==
    \/ InsightStart
    \/ InsightSkip
    \/ InsightNoText
    \/ InsightGenerate
    \/ InsightSaveOpen
    \/ InsightSaveDump
    \/ InsightSaveFail
    \/ InsightSleep
    \/ InsightFinish
    \/ InsightKill

SpecInsights == InitInsights /\ [][NextInsights]_vars

\* Batch insight runs that are invoked again and again, each to its end, with
\* a service that answers every request and saves that succeed. A run is a
\* sequential script, so that a step that can be taken is taken: every
\* action is weakly fair. For the two steps that read the text of the
\* conversation the condition is written out. InsightGenerateAnswered is
\* enabled exactly in the states of GenerationDue and its step leaves them, so
\* that its weak fairness is []<>~GenerationDue. InsightNoText is enabled
\* exactly in the states of NoTextDue, where no other step is, and each of its
\* steps moves loop_i on by one in a list that ends, so that its weak
\* fairness is []<>~NoTextDue.
NextInsightsAnswered ==
    \/ InsightStart
    \/ InsightSkip
    \/ InsightNoText
    \/ InsightGenerateAnswered
    \/ InsightSaveOpen
    \/ InsightSaveDump
    \/ InsightSleep
    \/ InsightFinish

SpecInsightsAnswered ==
    /\ InitInsights
    /\ [][NextInsightsAnswered]_vars
    /\ WF_vars(InsightStart)
    /\ WF_vars(InsightSkip)
    /\ []<>~NoTextDue
    /\ []<>~GenerationDue
    /\ WF_vars(InsightSaveOpen)
    /\ WF_vars(InsightSaveDump)
    /\ WF_vars(InsightSleep)
    /\ WF_vars(InsightFinish)

\* The helpers of batch_process_insights.py, called directly on a loaded
\* store of any records.
InitHelpers ==
    /\ records = <<>>
    /\ BuildIdle
    /\ NoConsumer
    /\ insights_file = NoInsightsFile
    /\ ipc = "idle"
    /\ run_no = 0
    /\ \E ks \in SeqsUpTo(TextKinds, MaxRecords) :
        all_metadata_list = StoreOfTextKinds(ks)
    /\ existing_insights = <<>>
    /\ ids_to_process = <<>>
    /\ loop_i = 0
    /\ new_insights_generated_this_session = 0
    /\ gen_log = <<>>
    /\ events = <<>>
    /\ this_run = NoRunYet
    /\ failed_earlier = {}
    /\ returned = NoCall
    /\ NoSession

NextHelpers ==
    \/ CallTextForLlm
    \/ CallGenerateInsights

SpecHelpers == InitHelpers /\ [][NextHelpers]_vars

\* The Insight Cache files that the app finds: none, and a file with the
\* entry of conversation "a", an insight or the failure marker.
PrecalculatedFiles ==
    {NoInsightsFile,
     [state |-> "ok",
      members |-> <<[k |-> Str(<<"a">>),
                     v |-> [summary |-> <<"s">>,
                            keywords |-> <<(<<"a">>), (<<"b">>)>>]]>>],
     [state |-> "ok",
      members |-> <<[k |-> Str(<<"a">>), v |-> FailureMarker]>>]}

\* The insight buttons of the loaded app, pressed one after the other in one
\* session, over every loaded Metadata Store.
InitOnDemand ==
    /\ records = <<>>
    /\ BuildIdle
    /\ consumer = [kind |-> "app", pc |-> "ready"]
    /\ \E ks \in SeqsUpTo(1..Len(InsightKinds), MaxInsightRecords) :
        /\ ks # <<>>
        /\ InKindOrder(ks)
        /\ metadata = [gen |-> 1,
                       list |-> WithDatetimes(StoreOfInsightKinds(ks), UTC)]
    /\ index = IndexOfSize(1)
    /\ thread_cache = <<>>
    /\ last_run = NoRun
    /\ NoInsightRun
    /\ \E file \in PrecalculatedFiles :
        precalculated_insights = load_precalculated_insights(file)
    /\ insight_cache = <<>>
    /\ ondemand_log = <<>>
    /\ notices = {}

\* The two apps start on the files as the builds can leave them: the
\* Metadata Store missing, cut short or whole, the Vector Index missing or
\* there; then the script runs of the app that loaded.
InitLoad ==
    /\ records = <<>>
    /\ bpc = "idle"
    /\ texts = <<>>
    /\ valid_records = <<>>
    /\ embeddings = <<>>
    /\ batch_i = 0
    /\ batch_log = <<>>
    /\ build_no = 1
    /\ \/ metadata_file = NoMetadataFile
       \/ metadata_file = [gen |-> 1, state |-> "truncated", records |-> <<>>]
       \/ \E rs \in SeqsUpTo(QueryRoles, MaxRecords) :
             /\ rs # <<>>
             /\ metadata_file = [gen |-> 1, state |-> "ok",
                                 records |-> StoreOfRoles(rs)]
       \/ \E ts \in LoadTimestamps :
             metadata_file =
                 [gen |-> 1, state |-> "ok",
                  records |-> <<Record(1, Str(<<"a">>), "user", Str(HELLO),
                                       ts)>>]
    /\ \/ index_file = NoIndexFile
       \/ \E n \in 1..MaxRecords : index_file = IndexOfSize(n)
    /\ NoConsumer
    /\ insights_file \in LoadInsightsFiles
    /\ InsightRunIdle
    /\ NoSession

NextLoad ==
    \/ AppLoadMetadata
    \/ AppLoadIndex
    \/ AppNoQuery
    \/ AppEmbedFail
    \/ AppSearch
    \/ EnhancedLoadMetadata
    \/ EnhancedLoadIndex
    \/ EnhancedSearchMode
    \/ AwaitInput

SpecLoad == InitLoad /\ [][NextLoad]_vars

NextOnDemand ==
    \/ AppGenerateInsights
    \/ AwaitInput

SpecOnDemand == InitOnDemand /\ [][NextOnDemand]_vars

----------------------------------------------------------------------------
(* Properties.                                                             *)

\* The files hold the index and the metadata that one build wrote.
FilesOfOneBuild ==
    /\ index_file.gen # 0
    /\ metadata_file.state = "ok"
    /\ index_file.gen = metadata_file.gen

\* C1: after a build that wrote an index, the Metadata Store file holds as
\* many records as the Vector Index holds vectors, and the vector at every
\* position is the embedding of the stripped content of the record at that
\* position.
C1_IndexAlignedWithMetadata ==
    FilesOfOneBuild =>
        /\ Len(metadata_file.records) = Len(index_file.vectors)
        /\ \A i \in 1..Len(index_file.vectors) :
            /\ i <= Len(metadata_file.records)
            /\ index_file.vectors[i] =
                   Embed(Stripped(metadata_file.records[i]))

\* C2: a consumer that has loaded the Metadata Store and the Vector Index
\* holds an index and metadata produced by the same build.
C2_ConsumerLoadsOneBuild ==
    consumer.pc = "ready" => metadata.gen = index.gen

\* The eligibility of a record as the contract of the sanitizer states it.
KeptByContract(r) ==
    /\ r.content.type = "str"
    /\ Strip(r.content.chars) # <<>>
    /\ Strip(r.content.chars) # BRACES
    /\ Strip(r.content.chars) # BRACKETS
    /\ StrLen(Strip(r.content.chars)) >= 3
    /\ TokenLen(Strip(r.content.chars)) < MAX_TOKENS

\* C3: when the sanitizer has run over the source, it has kept exactly the
\* records whose content is a string with a stripped form that is non-empty,
\* is not "{}" or "[]", has at least 3 characters and fewer than 8192 tokens;
\* kept records and texts are in source order and texts[i] is the stripped
\* content of valid_records[i].
C3_SanitizerKeepsEligible ==
    bpc # "idle" =>
        /\ valid_records = SelectSeq(records, KeptByContract)
        /\ Len(texts) = Len(valid_records)
        /\ \A i \in 1..Len(valid_records) :
            texts[i] = Strip(valid_records[i].content.chars)

\* C4: a record that the sanitizer dropped and that carries a parsable
\* timestamp is in the thread that the app reconstructs for its conversation.
C4_DroppedRecordInThread ==
    last_run.kind = "thread" =>
        \A i \in 1..Len(records) :
            ( /\ ~Eligible(records[i])
              /\ \A tz \in TimeZones : DatetimeObj(records[i], tz).ok
              /\ records[i].conversation_id = last_run.conversation_id )
            => \E j \in 1..Len(last_run.thread) :
                   last_run.thread[j].message_id = records[i].message_id

\* A timestamp that is present and that float() parses; membership of a
\* record in the thread of conversation c.
PresentAndParsable(m) ==
    /\ m.timestamp \notin {Missing, PyNone}
    /\ PyFloat(m.timestamp).ok

InConversation(c, m) ==
    /\ m.conversation_id = c
    /\ PresentAndParsable(m)

\* C5: get_full_conversation_messages(c, M) returns exactly the records of M
\* with conversation id c and a timestamp that is present and parsable, in
\* ascending order of timestamp, records of one timestamp in source order.
C5_ThreadIsTheConversationInOrder ==
    last_run.kind = "call" =>
        LET c == last_run.conversation_id
            t == last_run.thread
        IN /\ \A j \in 1..Len(t) :
                \E i \in 1..Len(metadata.list) :
                    t[j] = metadata.list[i] /\ InConversation(c, t[j])
           /\ \A i \in 1..Len(metadata.list) :
                InConversation(c, metadata.list[i]) =>
                    \E j \in 1..Len(t) : t[j] = metadata.list[i]
           /\ \A j, k \in 1..Len(t) :
                j < k =>
                    \/ FloatLess(PyFloat(t[j].timestamp).t,
                                 PyFloat(t[k].timestamp).t)
                    \/ /\ PyFloat(t[j].timestamp).t = PyFloat(t[k].timestamp).t
                       /\ t[j].message_id < t[k].message_id

\* C6: every record displayed by a query run was resolved from a handle h with
\* 0 <= h < len(Metadata Store), and no run crashes on a handle.
C6_DisplayedHandlesInBounds ==
    /\ ~last_run.crashed
    /\ \A j \in 1..Len(last_run.displayed) :
        /\ last_run.displayed[j].idx >= 0
        /\ last_run.displayed[j].idx < Len(metadata.list)

\* The role filter as stated, a handle within the Metadata Store, a candidate
\* that survives both, and the handles of the displayed hits.
RoleMatches(filter_role, role) ==
    \/ filter_role = "Any"
    \/ filter_role = "User (Zain)" /\ role = "user"
    \/ filter_role = "Assistant (OpenAI)" /\ role = "assistant"

InBounds(h) == h >= 0 /\ h < Len(metadata.list)

Surviving(h) ==
    /\ InBounds(h)
    /\ RoleMatches(last_run.filter_role, metadata.list[h + 1].role)

DisplayedHandles == [j \in 1..Len(last_run.displayed) |-> last_run.displayed[j].idx]

\* C7: the hits the app displays are, in order, the first DisplayLimit of the
\* candidates of I, taken in the order of I, that are within the bounds of
\* the Metadata Store and pass the role filter.
C7_DisplayedAreFirstSurvivors ==
    (last_run.kind = "app" /\ last_run.searched) =>
        LET survivors == SelectSeq(last_run.I, Surviving) IN
        /\ DisplayedHandles =
               SubSeq(survivors, 1, Min(DisplayLimit, Len(survivors)))
        /\ \A j \in 1..Len(last_run.displayed) :
            LET d == last_run.displayed[j] IN
            /\ d.record = metadata.list[d.idx + 1]
            /\ last_run.I[d.score] = d.idx
        /\ \A j, k \in 1..Len(last_run.displayed) :
            j < k => last_run.displayed[j].score < last_run.displayed[k].score

\* C7 happens: a search whose candidates hold a handle out of bounds ahead of
\* more than DisplayLimit surviving ones, so that a candidate was removed and
\* the rest truncated.
C7_Witness ==
    /\ last_run.kind = "app"
    /\ last_run.searched
    /\ Len(last_run.I) > 0
    /\ ~InBounds(last_run.I[1])
    /\ Len(SelectSeq(last_run.I, Surviving)) > DisplayLimit
    /\ Len(last_run.displayed) = DisplayLimit

\* C8: with the role filter User every displayed hit has role user, with
\* Assistant every displayed hit has role assistant, and with Any the results
\* are all the candidates within bounds.
C8_RoleFilterOnlyRemovesOtherRoles ==
    (last_run.kind = "app" /\ last_run.searched) =>
        /\ last_run.filter_role = "User (Zain)" =>
               \A j \in 1..Len(last_run.displayed) :
                   last_run.displayed[j].record.role = "user"
        /\ last_run.filter_role = "Assistant (OpenAI)" =>
               \A j \in 1..Len(last_run.displayed) :
                   last_run.displayed[j].record.role = "assistant"
        /\ last_run.filter_role = "Any" =>
               [j \in 1..Len(last_run.results_to_display) |->
                   last_run.results_to_display[j].original_faiss_idx]
               = SelectSeq(last_run.I, InBounds)

\* C8 happens: a search under the filter Assistant whose candidates hold a
\* user record ahead of an assistant record, of which only the second is
\* displayed.
C8_Witness ==
    /\ last_run.kind = "app"
    /\ last_run.searched
    /\ last_run.filter_role = "Assistant (OpenAI)"
    /\ Len(last_run.I) >= 2
    /\ InBounds(last_run.I[1])
    /\ InBounds(last_run.I[2])
    /\ metadata.list[last_run.I[1] + 1].role = "user"
    /\ metadata.list[last_run.I[2] + 1].role = "assistant"
    /\ Len(last_run.displayed) >= 1
    /\ last_run.displayed[1].idx = last_run.I[2]

\* C9: a query that is empty or only whitespace causes no embedding call and
\* no index search, and displays no results, in the CLI and in the app.
C9_BlankQueryDoesNothing ==
    (last_run.kind \in {"cli", "app"} /\ Strip(last_run.query) = <<>>) =>
        /\ ~last_run.embed_called
        /\ ~last_run.searched
        /\ last_run.displayed = <<>>

\* C10: when embedding the query fails, the run searches nothing and displays
\* nothing, reports an error, leaves the loaded index and metadata as they
\* were, and the CLI is back at its prompt.
C10_EmbedFailureAbortsSearch ==
    [][ (last_run'.embed_called /\ ~last_run'.embed_ok) =>
            /\ ~last_run'.searched
            /\ last_run'.I = <<>>
            /\ last_run'.displayed = <<>>
            /\ "embed_error" \in last_run'.messages
            /\ metadata' = metadata
            /\ index' = index
            /\ last_run'.kind = "cli" => consumer' = [kind |-> "cli", pc |-> "ready"]
      ]_vars

\* C10 happens: the CLI has run a query whose embedding failed.
C10_Witness ==
    /\ last_run.kind = "cli"
    /\ last_run.embed_called
    /\ ~last_run.embed_ok

\* The number of batches of the loop of line 48 over ts, and the vectors of
\* the batches of ts that the log marks as embedded, in the order of ts.
NumBatches(ts) == (Len(ts) + BatchSize - 1) \div BatchSize

RECURSIVE SucceededVectors(_, _, _)
SucceededVectors(ts, log, j) ==
    IF j > Len(log) THEN <<>>
    ELSE (IF log[j] THEN EmbedAll(Batch(ts, (j - 1) * BatchSize)) ELSE <<>>)
         \o SucceededVectors(ts, log, j + 1)

NoBatchSucceeded == \A j \in 1..Len(batch_log) : ~batch_log[j]

\* C15: a failed embedding batch does not end the build: after n attempts the
\* loop stands at batch n + 1, so that an index is written only after every
\* batch was attempted, and the embeddings, and the index written from them,
\* are the vectors of the texts of the batches that succeeded, in input order.
C15_FailedBatchIsSkippedOnly ==
    /\ bpc = "embed" =>
        /\ batch_i = Len(batch_log) * BatchSize
        /\ embeddings = SucceededVectors(texts, batch_log, 1)
    /\ (build_no > 0 /\ index_file.gen = build_no) =>
        /\ Len(batch_log) = NumBatches(texts)
        /\ index_file.vectors = SucceededVectors(texts, batch_log, 1)

\* C15 happens: a build of two batches whose first batch failed and whose
\* second batch succeeded wrote an index of the vector of the last text.
C15_Witness ==
    /\ bpc = "done"
    /\ Len(texts) = BatchSize + 1
    /\ batch_log = <<FALSE, TRUE>>
    /\ index_file.gen = build_no
    /\ index_file.vectors = <<Embed(texts[BatchSize + 1])>>

\* C16: in a build in which no record is eligible or no batch succeeded, no
\* step writes the Vector Index file or the Metadata Store file, and the step
\* that follows the last batch reports the failure and ends the build.
C16_NothingEmbeddedWritesNothing ==
    [][ (bpc = "embed" /\ NoBatchSucceeded /\ buildVars' # buildVars) =>
            /\ fileVars' = fileVars
            /\ batch_i >= Len(texts) => bpc' = "failed"
      ]_vars

\* C16 happens: a second build whose batches all failed has ended in failure
\* and the files are those of the first build; and a build of a source with
\* no eligible record has ended in failure with no file on disk.
C16_Witness ==
    /\ bpc = "failed"
    /\ batch_i >= Len(texts)
    /\ NoBatchSucceeded
    /\ \/ /\ build_no = 2
          /\ batch_log # <<>>
          /\ index_file.gen = 1
          /\ index_file.vectors # <<>>
          /\ metadata_file.gen = 1
          /\ metadata_file.state = "ok"
       \/ /\ build_no = 1
          /\ records # <<>>
          /\ texts = <<>>
          /\ fileVars = <<NoIndexFile, NoMetadataFile>>

\* The file at the start of this run has an entry under the id c, and the
\* entry that a file has under c (the last member of the key, as json.load
\* reads it).
InFile(file, c) ==
    /\ file.state = "ok"
    /\ \E j \in 1..Len(file.members) : file.members[j].k = JsonKey(c)

EntryInFile(file, c) == DictGet(JsonLoad(file.members, <<>>), JsonKey(c))

RunStarted == this_run.end # "none"

\* C11: a batch insight run requests no generation for a conversation id that
\* had an entry in the Insight Cache file when the run started and leaves that
\* entry as it was, and it requests at most one generation for any other id.
C11_CachedIdsAreLeftAlone ==
    RunStarted =>
        /\ \A j \in 1..Len(gen_log) : ~InFile(this_run.at_start, gen_log[j].id)
        /\ \A c \in {ids_to_process[j] : j \in 1..Len(ids_to_process)} :
              (InFile(this_run.at_start, c) /\ insights_file.state = "ok") =>
                  /\ InFile(insights_file, c)
                  /\ EntryInFile(insights_file, c)
                       = EntryInFile(this_run.at_start, c)
        /\ \A i, j \in 1..Len(gen_log) :
              i # j => gen_log[i].id # gen_log[j].id

\* C12: when a run has ended, normally or ended from outside at any point,
\* every entry that the Insight Cache file held when the run started is in the
\* file, unchanged.
C12_PersistedEntriesSurvive ==
    (this_run.end \in {"done", "killed"} /\ this_run.at_start.state = "ok") =>
        \A j \in 1..Len(this_run.at_start.members) :
            LET k == this_run.at_start.members[j].k IN
            /\ InFile(insights_file, k)
            /\ EntryInFile(insights_file, k) = EntryInFile(this_run.at_start, k)

\* C13: when a run has finished, every conversation whose generation failed
\* in it has the failure marker as its entry in the Insight Cache file, and no
\* run requests a generation for a conversation whose generation failed in an
\* earlier, finished run.
C13_FailureIsCachedAndNotRetried ==
    /\ this_run.end = "done" =>
           \A j \in 1..Len(gen_log) :
               ~gen_log[j].ok =>
                   /\ InFile(insights_file, gen_log[j].id)
                   /\ EntryInFile(insights_file, gen_log[j].id) = FailureMarker
    /\ \A j \in 1..Len(gen_log) : gen_log[j].id \notin failed_earlier

\* Every distinct conversation id of the Metadata Store had an entry in the
\* Insight Cache file when this run started.
FullyCachedAtStart ==
    /\ RunStarted
    /\ LET ids == ConversationIdsOf(metadata_file.records) IN
       \A j \in 1..Len(ids) : InFile(this_run.at_start, ids[j])

\* C14: a run that started with every conversation id of the Metadata Store
\* cached requests no generation and leaves the Insight Cache file as it was.
C14_FullyCachedRunIsNoOp ==
    FullyCachedAtStart =>
        /\ gen_log = <<>>
        /\ insights_file = this_run.at_start

\* C18: in a run, no generation request follows another one without the sleep
\* of the loop between them.
C18_SleepBetweenGenerationCalls ==
    \A j \in 1..(Len(events) - 1) :
        ~(events[j] = "call" /\ events[j + 1] = "call")

\* C18 happens: a run has requested a failed generation, slept, and requested
\* the next generation.
C18_Witness ==
    /\ Len(events) >= 3
    /\ Len(gen_log) >= 2
    /\ ~gen_log[1].ok
    /\ SubSeq(events, 1, 3) = <<"call", "sleep", "call">>

\* C20: every entry that a batch insight run holds for saving, and every
\* entry of the Insight Cache file, has at most 5 keywords.
C20_AtMostFiveKeywords ==
    /\ \A j \in 1..Len(existing_insights) :
           Len(existing_insights[j].v.keywords) <= 5
    /\ \A j \in 1..Len(insights_file.members) :
           Len(insights_file.members[j].v.keywords) <= 5

\* C17: in a session of streamlit_app, a failed generation on demand is
\* reported on the page, and every later press of the insight button of the
\* same conversation issues a generation request.
C17_FailedOnDemandIsRetried ==
    /\ \A i \in 1..Len(ondemand_log) :
           ondemand_log[i].failed => ondemand_log[i].reported
    /\ \A i, j \in 1..Len(ondemand_log) :
           (/\ i < j
            /\ ondemand_log[i].failed
            /\ ondemand_log[j].conversation_id
                 = ondemand_log[i].conversation_id)
           => ondemand_log[j].requested

\* The app has gone through its loading and the Metadata Store or the Vector
\* Index did not load.
LoadFailed ==
    /\ consumer.kind \in {"app", "enhanced"}
    /\ consumer.pc \in {"ready", "stopped", "crashed"}
    /\ (metadata.list = <<>> \/ index.gen = 0)

\* The page tells the user that data is missing.
ToldDataMissing ==
    \/ notices \cap {"metadata_not_found", "metadata_corrupt",
                     "index_not_read", "index_not_found",
                     "core_data_not_loaded"} # {}
    \/ "no_data_loaded" \in last_run.messages

\* C19: when streamlit_app or enhanced_app has loaded and the Metadata Store
\* or the Vector Index did not load, no script run requests a query
\* embedding or searches the index, and the page tells the user that data
\* is missing.
C19_FailedLoadRefusesSearch ==
    LoadFailed =>
        /\ ~last_run.embed_called
        /\ ~last_run.searched
        /\ ToldDataMissing

\* C27: while a run is in its loop, every conversation id of the Metadata
\* Store that had an entry in the Insight Cache file when the run started is
\* a key of existing_insights, and the file never holds two members for one
\* id.
C27_SavedIdIsRecognisedAfterReload ==
    /\ (RunStarted /\ ipc \in {"loop", "save", "dump", "sleep"}) =>
           LET ids == ConversationIdsOf(all_metadata_list) IN
           \A j \in 1..Len(ids) :
               InFile(this_run.at_start, ids[j])
                   => DictHas(existing_insights, ids[j])
    /\ \A i, j \in 1..Len(insights_file.members) :
           i # j => insights_file.members[i].k # insights_file.members[j].k

\* No save of this run raised.
NoSaveError == \A j \in 1..Len(events) : events[j] # "save_error"

\* C22: when a run that generated at least one insight, and in which no save
\* raised, has finished, the Insight Cache file holds every entry of
\* existing_insights, and the total that the run reports is the number of
\* entries of the file.
C22_ReportedTotalIsInFile ==
    (/\ this_run.end = "done"
     /\ new_insights_generated_this_session > 0
     /\ NoSaveError) =>
        /\ insights_file.state = "ok"
        /\ insights_file.members = JsonDump(existing_insights)
        /\ this_run.total = Len(insights_file.members)

\* Every distinct conversation id of the Metadata Store has an entry in the
\* Insight Cache file.
AllIdsInFile ==
    LET ids == ConversationIdsOf(metadata_file.records) IN
    \A j \in 1..Len(ids) : InFile(insights_file, ids[j])

\* C23: with a service that answers and saves that succeed, the runs invoked
\* one after the other reach a state in which every distinct conversation id
\* of the Metadata Store has an entry in the Insight Cache file.
C23_RunsReachFullCoverage == <>AllIdsInFile

\* The records the text of conversation c is to be built from: those of c
\* with a timestamp that is present and parsable, by ascending timestamp.
RecordsOfText(c, M) ==
    SortByTimestamp(SelectSeq(M, LAMBDA m : InConversation(c, m)))

\* C24: get_full_conversation_text_for_llm(c, M) builds its text from exactly
\* the records of M with conversation id c whose timestamp is present and
\* parsable, in ascending order of timestamp; a record with a missing or
\* unparsable timestamp is left out alone, the others are still in the text.
C24_TextIsOfTheParsableRecords ==
    returned.fn = "get_full_conversation_text_for_llm" =>
        LET ms == RecordsOfText(returned.conversation_id, all_metadata_list)
        IN IF ms = <<>>
           THEN returned.result \in {PyNone, Str(<<>>)}
           ELSE returned.result =
                    Str(JoinLines([j \in 1..Len(ms) |-> LlmInputPart(ms[j])]))

\* The lines of a response that start with a prefix, whatever the case of
\* their letters, and the trimmed text of a line after a prefix.
PrefixedLines(content, prefix) ==
    SelectSeq(SplitOn(content, "\n", <<>>),
              LAMBDA line : StartsWith(Upper(line), prefix))

AfterPrefix(line, prefix) ==
    Strip(SubSeq(line, Len(prefix) + 1, Len(line)))

\* C25: on a response of the service, generate_insights_for_text returns
\* (None, None) exactly when no line of the response starts with SUMMARY: and
\* none with KEYWORDS:, in any case of the letters; otherwise the summary is
\* the trimmed text after the prefix of a SUMMARY: line, and the keywords are
\* the trimmed non-empty items between the commas after the prefix of a
\* KEYWORDS: line, in their order.
C25_ParsedAsPrefixedLines ==
    (/\ returned.fn = "generate_insights_for_text"
     /\ returned.result.called
     /\ ~returned.reply.raises) =>
        LET summaries == PrefixedLines(returned.reply.content, SUMMARY_PREFIX)
            keywords == PrefixedLines(returned.reply.content, KEYWORDS_PREFIX)
        IN /\ returned.result.none <=> (summaries = <<>> /\ keywords = <<>>)
           /\ (~returned.result.none /\ summaries # <<>>) =>
                  \E j \in 1..Len(summaries) :
                      returned.result.summary =
                          AfterPrefix(summaries[j], SUMMARY_PREFIX)
           /\ (~returned.result.none /\ keywords # <<>>) =>
                  \E j \in 1..Len(keywords) :
                      returned.result.keywords =
                          KeywordsList(AfterPrefix(keywords[j], KEYWORDS_PREFIX))

\* The insight of request k of the session was generated by that request, or
\* by an earlier request of the session for the same conversation.
GeneratedForItsConversation(k) ==
    \/ ondemand_log[k].requested
    \/ \E j \in 1..(k - 1) :
        /\ ondemand_log[j].conversation_id = ondemand_log[k].conversation_id
        /\ ondemand_log[j].requested
        /\ ondemand_log[j].summary = ondemand_log[k].summary
        /\ ondemand_log[j].keywords = ondemand_log[k].keywords

\* C26: in one session of streamlit_app.py, whatever conversations were asked
\* for before, the thread returned by get_full_conversation_messages for
\* conversation c holds records of c only, and the on-demand insight returned
\* for c was generated from the text of that thread of c.
C26_ThreadAndInsightAreOfTheConversation ==
    last_run.kind = "insights" =>
        /\ \A j \in 1..Len(last_run.thread) :
            Get(last_run.thread[j].conversation_id, PyNone)
                = last_run.conversation_id
        /\ \A k \in 1..Len(ondemand_log) : GeneratedForItsConversation(k)

\* The handles and the distances of the hits that a run displayed, in order.
DisplayedHits(run) ==
    [j \in 1..Len(run.displayed) |->
        [idx |-> run.displayed[j].idx, score |-> run.displayed[j].score]]

\* A step from a displayed search to a search of the same query under the
\* same role filter, the index having given the same I[0] for the same
\* vector, on the Vector Index and the Metadata Store as they were.
SameQueryAgain ==
    /\ last_run.searched /\ last_run'.searched
    /\ last_run'.kind = last_run.kind
    /\ last_run'.query = last_run.query

C21_Witness ==
    /\ last_run.resubmitted
    /\ last_run.kind = "app"
    /\ last_run.filter_role = "User (Zain)"
    /\ Len(last_run.displayed) = DisplayLimit
    /\ Len(last_run.results_to_display) > DisplayLimit
    /\ thread_cache # <<>>

====
